---- MODULE Spec2Model ----
(***************************************************************************)
(* Verification model of the MFA intent pipeline (src/MFA/src):            *)
(*   intents/gates.ts        gate, checkForEmergency, findMissingSlots     *)
(*   intents/validate.ts     parseIntentJSON, validatePlausibility         *)
(*   intents/multi.ts        createProcessingPlan, analyzeComplexity       *)
(*   time/normalize.ts       normalizeDateTimeSlots                        *)
(*   time/businessHours.ts   isWithinBusinessHours and its configuration   *)
(*   observability/metrics.ts   parseTimesDe and its time cache            *)
(*   pipeline/classifyExtract.ts   classifyEmail, classifyEmailBatch       *)
(*   config/env.ts           reserve, ensureResource (on db/db.ts)         *)
(*                                                                         *)
(* Numbers between 0 and 1 (confidences, complexity scores) are            *)
(* fixed-point numbers with five decimals: 0.85 is 85000, 0.84999 is       *)
(* 84999, 1.0 is 100000.  Texts the code inspects by character are         *)
(* sequences of one-character strings, so that toLowerCase, trim and       *)
(* includes are computed; model answers are sequences of lexemes; messages *)
(* are sequences of their parts.  Clock times are minutes of the day,      *)
(* dates are texts YYYY-MM-DD, Date.now() is in milliseconds.              *)
(*                                                                         *)
(* The specifications share the variables: GateSpec (configureGates and    *)
(* gate), ParseSpec (parseIntentJSON), ClassifySpec (classifyEmail with    *)
(* its model caller and its timer; FairClassifySpec adds the fairness of   *)
(* the timer), BatchSpec (classifyEmailBatch), BhSpec (the business-hours  *)
(* module), CacheSpec (overlapping parseTimesDe calls on the time cache),  *)
(* PlanSpec (createProcessingPlan, analyzeComplexity), CompatSpec          *)
(* (areIntentsCompatible) and ReserveSpec (overlapping reserve calls on    *)
(* calendar.db).  Each one holds the variables of the others at rest.      *)
(***************************************************************************)
EXTENDS Integers, Sequences, FiniteSets, TLC

VARIABLES
  gateConfig,     \* gates.ts:42  module-level gate configuration
  gateResp,       \* the IntentResponse handed to gate
  gateText,       \* the originalText handed to gate
  gateDecision,   \* the GateDecision of the last gate call, NoDecision before
  gateUsed        \* the configuration that call ran under

gateVars == <<gateConfig, gateResp, gateText, gateDecision, gateUsed>>

VARIABLES
  parseRaw,       \* the raw model output handed to parseIntentJSON
  parseResult     \* what the call returned or threw, NotCalled before

parseVars == <<parseRaw, parseResult>>

VARIABLES
  clsEmail,       \* the message handed to classifyEmail
  clsOpts,        \* classifyExtract.ts:136  the merged options
  clsPc,          \* where the call stands: idle, awaitLLM, normalizing, done
  clsLlm,         \* the model caller: number of calls, its promise, its answer
  clsTimer,       \* the timeout timer: unset, armed, fired
  clsHeld,        \* what the call holds while it awaits the normalizations
  clsResult,      \* the settled promise of classifyEmail, NotCalled before
  clsWorlds       \* what the time-parsing service did for each item, <<>> before

clsVars ==
  <<clsEmail, clsOpts, clsPc, clsLlm, clsTimer, clsHeld, clsResult, clsWorlds>>

VARIABLES
  bhHours,        \* businessHours.ts:53  the table of opening hours
  bhHolidays,     \* businessHours.ts:54  the list of holidays
  bhInitialized,  \* businessHours.ts:55
  bhQuery,        \* the instant of the last isWithinBusinessHours call
  bhVerdict       \* what that call returned, "none" before

bhVars == <<bhHours, bhHolidays, bhInitialized, bhQuery, bhVerdict>>

VARIABLES
  tcCache,        \* metrics.ts:61  timeCache, its entries in insertion order
  tcNow,          \* Date.now()
  tcTasks,        \* the parseTimesDe calls in flight, one per caller
  tcLast,         \* the last step of a parseTimesDe call, with what it did
  tcStoredAt      \* per key, when a lookup last stored it; -1 before

tcVars == <<tcCache, tcNow, tcTasks, tcLast, tcStoredAt>>

VARIABLES
  batEmails,      \* the messages handed to classifyEmailBatch
  batStart,       \* classifyExtract.ts:310  the loop variable i
  batCalls,       \* per message: its classifyEmail call, model call and timer
  batResults,     \* classifyExtract.ts:308  results
  batPc           \* where the batch stands: idle, awaitBatch, done

batVars == <<batEmails, batStart, batCalls, batResults, batPc>>

VARIABLES
  planItems,      \* the items handed to createProcessingPlan
  planResult,     \* the plan it returned, NotCalled before
  planAnalysis,   \* what analyzeComplexity returned for the plan, NotCalled before
  cmpIntents,     \* the intents handed to areIntentsCompatible
  cmpResult       \* what it returned as text, "none" before

planVars == <<planItems, planResult, planAnalysis, cmpIntents, cmpResult>>

VARIABLES
  resResources,     \* table resources: the names that have a row
  resCapacity,      \* table slot_capacity: rows [resource, slot, max_bookings]
  resReservations,  \* table reservations: per (resource, slot, patient) the rows stored
  resTasks,         \* per caller: where its reserve call stands
  resLast           \* how the last finished reserve call ended

resVars == <<resResources, resCapacity, resReservations, resTasks, resLast>>

\* the variables of the components that stand alone
auxVars == <<tcVars, batVars, planVars, resVars>>

----------------------------------------------------------------------------
(* Bounds *)

MaxItems == 2

\* the longest list of messages handed to classifyEmailBatch
MaxBatchEmails == 4

\* the number of entries the time cache keeps; stands for the 1000 of
\* metrics.ts:126
MaxCacheSize == 2

\* the longest item list handed to createProcessingPlan
MaxPlanItems == 3

\* the longest list of intents handed to areIntentsCompatible
MaxComboIntents == 3

----------------------------------------------------------------------------
(* Strings *)

\* a nullable string: null, or the characters of a string
Null == [isNull |-> TRUE, s |-> <<>>]

Str(chars) == [isNull |-> FALSE, s |-> chars]

Upper == <<"A","B","C","D","E","F","G","H","I","J","K","L","M",
           "N","O","P","Q","R","S","T","U","V","W","X","Y","Z">>

LowerOf == <<"a","b","c","d","e","f","g","h","i","j","k","l","m",
             "n","o","p","q","r","s","t","u","v","w","x","y","z">>

toLowerCaseChar(c) ==
  IF \E i \in 1..Len(Upper) : Upper[i] = c
  THEN LowerOf[CHOOSE i \in 1..Len(Upper) : Upper[i] = c]
  ELSE c

toLowerCase(str) == [i \in 1..Len(str) |-> toLowerCaseChar(str[i])]

\* String.prototype.includes: needle occurs as a contiguous substring
includes(str, needle) ==
  \E i \in 0..(Len(str) - Len(needle)) :
    SubSeq(str, i + 1, i + Len(needle)) = needle

IsWhitespace(c) == c \in {" ", "\t", "\n", "\r"}

RECURSIVE trimStart(_)
trimStart(str) ==
  IF str # <<>> /\ IsWhitespace(Head(str)) THEN trimStart(Tail(str)) ELSE str

RECURSIVE trimEnd(_)
trimEnd(str) ==
  IF str # <<>> /\ IsWhitespace(str[Len(str)])
  THEN trimEnd(SubSeq(str, 1, Len(str) - 1))
  ELSE str

trim(str) == trimEnd(trimStart(str))

\* Array.prototype.join(', ')
RECURSIVE join(_)
join(strs) ==
  IF strs = <<>> THEN <<>>
  ELSE IF Len(strs) = 1 THEN strs[1]
  ELSE strs[1] \o <<",", " ">> \o join(Tail(strs))

Min(a, b) == IF a < b THEN a ELSE b

Max(a, b) == IF a < b THEN b ELSE a

\* String.prototype.substring(from, to): the arguments are swapped when
\* from > to and clamped to the text
substring(str, from, to) ==
  SubSeq(str, Min(Min(from, to), Len(str)) + 1, Min(Max(from, to), Len(str)))

----------------------------------------------------------------------------
(* intents/types.ts *)

INTENT_TYPES ==
  { "termin_anfragen", "termin_verschieben", "termin_absagen",
    "rezept_anfordern", "arbeitsunfaehigkeit", "befundauskunft",
    "allgemeine_info", "notfall", "laborbefund", "ueberweisung" }

NEXT_ACTIONS ==
  { "slots_vervollstaendigen", "termin_vorschlagen", "rueckfrage_senden",
    "eskalieren", "notfall_protokoll", "sofort_termin" }

EMERGENCY_KEYWORDS ==
  << <<"n","o","t","f","a","l","l">>,
     <<"d","r","i","n","g","e","n","d">>,
     <<"s","o","f","o","r","t">>,
     <<"a","k","u","t">>,
     <<"s","c","h","m","e","r","z","e","n">>,
     <<"a","t","e","m","n","o","t">>,
     <<"b","r","u","s","t","s","c","h","m","e","r","z","e","n">>,
     <<"h","e","r","z","i","n","f","a","r","k","t">>,
     <<"s","c","h","l","a","g","a","n","f","a","l","l">>,
     <<"b","e","w","u","s","s","t","l","o","s">>,
     <<"b","l","u","t","u","n","g">>,
     <<"v","e","r","g","i","f","t","u","n","g">>,
     <<"u","n","f","a","l","l">>,
     <<"s","t","u","r","z">>,
     <<"k","o","l","l","a","p","s">> >>

\* IntentSlots: every slot is a nullable string
IntentSlots(datum, zeit, grund, medikament) ==
  [ datum |-> datum, zeit |-> zeit, dringlichkeit |-> Null, grund |-> grund,
    person_name |-> Null, geburtsdatum |-> Null, versicherung |-> Null,
    medikament |-> medikament, symptome |-> Null, kontakt |-> Null,
    freie_form |-> Null ]

IntentItem(intent, confidence, slots, next_action) ==
  [ intent |-> intent, confidence |-> confidence, slots |-> slots,
    next_action |-> next_action, notes |-> <<"o","k">> ]

----------------------------------------------------------------------------
(* intents/gates.ts *)

DEFAULT_CONFIG ==
  [ autoProcessThreshold |-> 85000,
    confirmThreshold     |-> 50000,
    escalateThreshold    |-> 50000,
    emergencyKeywords    |-> EMERGENCY_KEYWORDS,
    requiredSlots        |->
      [ termin_anfragen     |-> <<"datum", "zeit">>,
        termin_verschieben  |-> <<"datum">>,
        termin_absagen      |-> <<>>,
        rezept_anfordern    |-> <<"medikament">>,
        arbeitsunfaehigkeit |-> <<"grund">>,
        befundauskunft      |-> <<>>,
        laborbefund         |-> <<>>,
        ueberweisung        |-> <<"grund">>,
        notfall             |-> <<>>,
        allgemeine_info     |-> <<>> ] ]

\* { ...gateConfig, ...config }
MergeConfig(old, config) ==
  [ k \in DOMAIN old |-> IF k \in DOMAIN config THEN config[k] ELSE old[k] ]

\* the value checkForEmergency returns when it finds no emergency (null)
NoDecision == [action |-> "null"]

\* mutant: only the intent marks an emergency item
isEmergencyItemIntentOnly(item) == item.intent = "notfall"

isEmergencyItem(item) ==
  item.intent = "notfall" \/ item.next_action = "notfall_protokoll"

MaxOf(S) == CHOOSE m \in S : \A x \in S : x <= m

Confidences(items) == { items[i].confidence : i \in 1..Len(items) }

\* the keywords the literal list of gates.ts:179 rates as critical
CriticalKeywords ==
  { <<"h","e","r","z","i","n","f","a","r","k","t">>,
    <<"s","c","h","l","a","g","a","n","f","a","l","l">>,
    <<"b","e","w","u","s","s","t","l","o","s">>,
    <<"a","t","e","m","n","o","t">> }

KwReasonPrefix ==
  <<"N","o","t","f","a","l","l","-","K","e","y","w","o","r","d","s"," ",
    "e","r","k","a","n","n","t",":"," ">>

KwNotesPrefix ==
  <<"A","u","t","o","m","a","t","i","s","c","h","e"," ","N","o","t","f","a",
    "l","l","-","E","r","k","e","n","n","u","n","g"," ","d","u","r","c","h",
    " ","K","e","y","w","o","r","d","s",":"," ">>

Hoch == <<"h","o","c","h">>

\* mutant: the text is matched case-sensitively
foundEmergencyKeywordsCaseSensitive(originalText) ==
  SelectSeq(gateConfig.emergencyKeywords,
            LAMBDA keyword : includes(originalText, toLowerCase(keyword)))

foundEmergencyKeywords(originalText) ==
  SelectSeq(gateConfig.emergencyKeywords,
            LAMBDA keyword :
              includes(toLowerCase(originalText), toLowerCase(keyword)))

\* the item checkForEmergency synthesizes from the matched keywords
emergencyItem(originalText, found) ==
  [ intent |-> "notfall",
    confidence |-> 90000,
    slots |->
      [ datum |-> Null, zeit |-> Null, dringlichkeit |-> Str(Hoch),
        grund |-> Str(KwReasonPrefix \o join(found)),
        person_name |-> Null, geburtsdatum |-> Null, versicherung |-> Null,
        medikament |-> Null, symptome |-> Str(join(found)), kontakt |-> Null,
        freie_form |-> Str(substring(originalText, 0, 200)) ],
    next_action |-> "notfall_protokoll",
    notes |-> KwNotesPrefix \o join(found) ]

urgencyOfInclusive(highestConfidence) ==
  IF highestConfidence >= 80000 THEN "critical" ELSE "high"

\* gates.ts:139
urgencyOf(highestConfidence) ==
  IF highestConfidence > 80000 THEN "critical" ELSE "high"

checkForEmergency(resp, originalText) ==
  LET emergencyItems == SelectSeq(resp.items, isEmergencyItem)
      found == foundEmergencyKeywords(originalText)
  IN  IF Len(emergencyItems) > 0
      THEN [ action |-> "EMERGENCY",
             items |-> emergencyItems,
             reason |-> "Notfall-Intent erkannt",
             urgency |-> urgencyOf(MaxOf(Confidences(emergencyItems))) ]
      ELSE IF originalText # <<>> /\ Len(found) > 0
      THEN [ action |-> "EMERGENCY",
             items |-> <<emergencyItem(originalText, found)>>,
             reason |-> "Notfall-Keywords erkannt",
             urgency |-> IF \E i \in 1..Len(found) : found[i] \in CriticalKeywords
                         THEN "critical" ELSE "high" ]
      ELSE NoDecision

\* mutant: a blank slot counts as filled
slotIsMissingNoTrim(item, requiredSlot) ==
  \/ requiredSlot \notin DOMAIN item.slots
  \/ item.slots[requiredSlot].isNull
  \/ item.slots[requiredSlot].s = <<>>

\* !slotValue || slotValue.trim() === ''  (an unknown slot name reads undefined)
slotIsMissing(item, requiredSlot) ==
  \/ requiredSlot \notin DOMAIN item.slots
  \/ item.slots[requiredSlot].isNull
  \/ item.slots[requiredSlot].s = <<>>
  \/ trim(item.slots[requiredSlot].s) = <<>>

\* gateConfig.requiredSlots[item.intent] || []
requiredSlotsOf(item) ==
  IF item.intent \in DOMAIN gateConfig.requiredSlots
  THEN gateConfig.requiredSlots[item.intent]
  ELSE <<>>

InSeq(x, seq) == \E i \in 1..Len(seq) : seq[i] = x

\* Set.add for every missing required slot of one item, in table order
RECURSIVE addMissing(_, _, _)
addMissing(item, requiredSlots, acc) ==
  IF requiredSlots = <<>> THEN acc
  ELSE LET rs == Head(requiredSlots)
       IN  addMissing(item, Tail(requiredSlots),
                      IF slotIsMissing(item, rs) /\ ~InSeq(rs, acc)
                      THEN Append(acc, rs) ELSE acc)

RECURSIVE findMissingFrom(_, _)
findMissingFrom(items, acc) ==
  IF items = <<>> THEN acc
  ELSE findMissingFrom(Tail(items),
                       addMissing(Head(items), requiredSlotsOf(Head(items)), acc))

findMissingSlots(items) == findMissingFrom(items, <<>>)

\* mutant: the LLM's request for a human is looked at after the auto-process rule
requiresHumanBelowAuto(resp) ==
  /\ resp.overall.requires_human
  /\ resp.overall.max_confidence < gateConfig.autoProcessThreshold

\* gates.ts:66
requiresHuman(resp) == resp.overall.requires_human

\* mutant: the auto-process threshold itself is excluded
isHighConfidenceStrict(c) == c > gateConfig.autoProcessThreshold

\* gates.ts:78
isHighConfidence(c) == c >= gateConfig.autoProcessThreshold

\* gates.ts:100
isMediumConfidence(c) == c >= gateConfig.confirmThreshold

computedConfidence(resp) == MaxOf(Confidences(resp.items))

\* gates.ts:75
declaredConfidence(resp) == resp.overall.max_confidence

gate(resp, originalText) ==
  LET emergencyDecision == checkForEmergency(resp, originalText)
      c == declaredConfidence(resp)
      missingSlots == findMissingSlots(resp.items)
  IN  IF emergencyDecision # NoDecision THEN emergencyDecision
      ELSE IF requiresHuman(resp)
      THEN [ action |-> "ESCALATE", items |-> resp.items,
             reason |-> "LLM empfiehlt menschliche Bearbeitung",
             confidence |-> c ]
      ELSE IF isHighConfidence(c)
      THEN IF Len(missingSlots) = 0
           THEN [ action |-> "AUTO_PROCESS", items |-> resp.items,
                  confidence |-> c,
                  reason |-> "Hohe Konfidenz und alle Slots verfuegbar" ]
           ELSE [ action |-> "ASK_CONFIRM", items |-> resp.items,
                  reason |-> "Hohe Konfidenz, aber fehlende Informationen",
                  confidence |-> c, missingSlots |-> missingSlots ]
      ELSE IF isMediumConfidence(c)
      THEN IF Len(missingSlots) > 0
           THEN [ action |-> "ASK_CONFIRM", items |-> resp.items,
                  reason |-> "Mittlere Sicherheit bei der Erkennung",
                  confidence |-> c, missingSlots |-> missingSlots ]
           ELSE [ action |-> "ASK_CONFIRM", items |-> resp.items,
                  reason |-> "Mittlere Sicherheit bei der Erkennung",
                  confidence |-> c ]
      ELSE [ action |-> "ESCALATE", items |-> resp.items,
             reason |-> "Niedrige Sicherheit bei der Erkennung",
             confidence |-> c ]


configureGates(config) ==
  gateConfig' = MergeConfig(gateConfig, config)

----------------------------------------------------------------------------
(* intents/validate.ts *)

\* JSON values, as JSON.parse returns them
JNull == [t |-> "null"]

JNum(n) == [t |-> "num", v |-> n]

JStr(s) == [t |-> "str", v |-> s]

JBool(b) == [t |-> "bool", v |-> b]

JArr(a) == [t |-> "arr", v |-> a]

JObj(o) == [t |-> "obj", v |-> o]

\* the outcome of a step that returns a value or throws an error
Ok(value) == [ok |-> TRUE, value |-> value]

Throw(name, message) ==
  [ok |-> FALSE, error |-> [name |-> name, message |-> message]]

\* Zod primitives
zString(j) == j.t = "str"

zNullableString(j) == j.t = "null" \/ j.t = "str"

zEnum(values, j) == j.t = "str" /\ j.v \in values

zNullableEnum(values, j) == j.t = "null" \/ zEnum(values, j)

zBoolean(j) == j.t = "bool"

\* mutant: z.number().min(0) without the .max(1)
zConfidenceNoMax(j) == j.t = "num" /\ j.v >= 0

\* z.number().min(0).max(1)
zConfidence(j) == j.t = "num" /\ j.v >= 0 /\ j.v <= 100000

zObject(keys, j) == j.t = "obj" /\ keys \subseteq DOMAIN j.v

\* z.array(...).min(1)
zMinLength(a) == Len(a) >= 1

Dringlichkeiten ==
  { <<"h","o","c","h">>, <<"n","o","r","m","a","l">>,
    <<"n","i","e","d","r","i","g">> }

Versicherungen ==
  { <<"g","e","s","e","t","z","l","i","c","h">>, <<"p","r","i","v","a","t">> }

PriorityIndicators ==
  { <<"n","o","r","m","a","l">>, <<"u","r","g","e","n","t">>,
    <<"e","m","e","r","g","e","n","c","y">> }

Sentiments ==
  { <<"p","o","s","i","t","i","v">>, <<"n","e","u","t","r","a","l">>,
    <<"n","e","g","a","t","i","v">> }

SlotNames ==
  { "datum", "zeit", "dringlichkeit", "grund", "person_name", "geburtsdatum",
    "versicherung", "medikament", "symptome", "kontakt", "freie_form" }

Slots(j) ==
  /\ zObject(SlotNames, j)
  /\ zNullableEnum(Dringlichkeiten, j.v.dringlichkeit)
  /\ zNullableEnum(Versicherungen, j.v.versicherung)
  /\ \A k \in SlotNames \ {"dringlichkeit", "versicherung"} :
       zNullableString(j.v[k])

IntentItemSchema(j) ==
  /\ zObject({"intent", "confidence", "slots", "next_action", "notes"}, j)
  /\ zEnum(INTENT_TYPES, j.v.intent)
  /\ zConfidence(j.v.confidence)
  /\ Slots(j.v.slots)
  /\ zEnum(NEXT_ACTIONS, j.v.next_action)
  /\ zString(j.v.notes)

EmailMetaSchema(j) ==
  /\ zObject({"language", "received_at_iso", "priority_indicator"}, j)
  /\ j.v.language = JStr("de")
  /\ zNullableString(j.v.received_at_iso)
  /\ zNullableEnum(PriorityIndicators, j.v.priority_indicator)

OverallSchema(j) ==
  /\ zObject({"top_intent", "max_confidence", "multi_intent", "sentiment",
              "requires_human"}, j)
  /\ zEnum(INTENT_TYPES, j.v.top_intent)
  /\ zConfidence(j.v.max_confidence)
  /\ zBoolean(j.v.multi_intent)
  /\ zNullableEnum(Sentiments, j.v.sentiment)
  /\ zBoolean(j.v.requires_human)

IntentResponseSchema(j) ==
  /\ zObject({"email_meta", "items", "overall"}, j)
  /\ EmailMetaSchema(j.v.email_meta)
  /\ j.v.items.t = "arr"
  /\ \A i \in 1..Len(j.v.items.v) : IntentItemSchema(j.v.items.v[i])
  /\ zMinLength(j.v.items.v)
  /\ OverallSchema(j.v.overall)

\* the typed value Zod returns for a value that passed the schema
toNullable(j) == IF j.t = "null" THEN Null ELSE Str(j.v)

toIntentItem(j) ==
  [ intent |-> j.v.intent.v,
    confidence |-> j.v.confidence.v,
    slots |-> [ k \in SlotNames |-> toNullable(j.v.slots.v[k]) ],
    next_action |-> j.v.next_action.v,
    notes |-> j.v.notes.v ]

toIntentResponse(j) ==
  [ email_meta |->
      [ language |-> j.v.email_meta.v.language.v,
        received_at_iso |-> toNullable(j.v.email_meta.v.received_at_iso),
        priority_indicator |-> toNullable(j.v.email_meta.v.priority_indicator) ],
    items |-> [ i \in 1..Len(j.v.items.v) |-> toIntentItem(j.v.items.v[i]) ],
    overall |->
      [ top_intent |-> j.v.overall.v.top_intent.v,
        max_confidence |-> j.v.overall.v.max_confidence.v,
        multi_intent |-> j.v.overall.v.multi_intent.v,
        sentiment |-> toNullable(j.v.overall.v.sentiment),
        requires_human |-> j.v.overall.v.requires_human.v ] ]

\* IntentResponseSchema.parse
IntentResponseSchemaParse(j) ==
  IF IntentResponseSchema(j)
  THEN Ok(toIntentResponse(j))
  ELSE Throw("ZodError", <<"invalid IntentResponse">>)

Intents(items) == { items[i].intent : i \in 1..Len(items) }

\* validate.ts:104
topIntentExists(response) ==
  \E i \in 1..Len(response.items) :
    response.items[i].intent = response.overall.top_intent

\* the console.warn lines of validatePlausibility: logged, never thrown
plausibilityWarnings(response) ==
  LET actualMaxConfidence == MaxOf(Confidences(response.items))
      diff == response.overall.max_confidence - actualMaxConfidence
      actualMultiIntent == Cardinality(Intents(response.items)) > 1
  IN  (IF (IF diff < 0 THEN -diff ELSE diff) > 1000
       THEN {"Max confidence mismatch"} ELSE {})
      \cup
      (IF response.overall.multi_intent # actualMultiIntent
       THEN {"Multi intent mismatch"} ELSE {})

validatePlausibility(response) ==
  IF ~topIntentExists(response)
  THEN Throw("Error", <<"Top intent nicht in items gefunden">>)
  ELSE Ok(response)

\* the texts a model answers with are sequences of lexemes: the code fence,
\* (FENCE, three backquotes), words of letters, white space, the braces, and
\* names of object bodies (the
\* members between the outermost braces of a JSON object, see DocBodies)
Words == {"json", "Hier", "ist", "das", "Ergebnis", "ok"}

startsWith(txt, prefix) == txt # <<>> /\ Head(txt) = prefix

RECURSIVE dropLetters(_)
dropLetters(txt) ==
  IF txt # <<>> /\ Head(txt) \in Words THEN dropLetters(Tail(txt)) ELSE txt

\* txt.replace(/^FENCE[a-zA-Z]*\n?/, "")
stripFenceOpen(txt) ==
  IF ~startsWith(txt, "FENCE") THEN txt
  ELSE LET rest == dropLetters(Tail(txt))
       IN  IF startsWith(rest, "\n") THEN Tail(rest) ELSE rest

\* txt.replace(/FENCE$/, "")
stripFenceClose(txt) ==
  IF txt # <<>> /\ txt[Len(txt)] = "FENCE"
  THEN SubSeq(txt, 1, Len(txt) - 1)
  ELSE txt

indexOf(txt, c) ==
  IF \E i \in 1..Len(txt) : txt[i] = c
  THEN (CHOOSE i \in 1..Len(txt) :
          txt[i] = c /\ \A k \in 1..(i - 1) : txt[k] # c) - 1
  ELSE -1

lastIndexOf(txt, c) ==
  IF \E i \in 1..Len(txt) : txt[i] = c
  THEN (CHOOSE i \in 1..Len(txt) :
          txt[i] = c /\ \A k \in (i + 1)..Len(txt) : txt[k] # c) - 1
  ELSE -1

\* the object bodies a model answer may carry, by name: what JSON.parse makes of
\* the members between the outermost braces
JSlots(datum, zeit, medikament) ==
  JObj([ datum |-> datum, zeit |-> zeit, dringlichkeit |-> JNull,
         grund |-> JNull, person_name |-> JNull, geburtsdatum |-> JNull,
         versicherung |-> JNull, medikament |-> medikament,
         symptome |-> JNull, kontakt |-> JNull, freie_form |-> JNull ])

JItem(intent, confidence, slots, next_action) ==
  JObj([ intent |-> JStr(intent), confidence |-> confidence, slots |-> slots,
         next_action |-> JStr(next_action), notes |-> JStr(<<"o","k">>) ])

JMeta(language) ==
  JObj([ language |-> JStr(language), received_at_iso |-> JNull,
         priority_indicator |-> JNull ])

JOverall(top_intent, max_confidence, multi_intent, requires_human) ==
  JObj([ top_intent |-> JStr(top_intent), max_confidence |-> JNum(max_confidence),
         multi_intent |-> JBool(multi_intent), sentiment |-> JNull,
         requires_human |-> JBool(requires_human) ])

JTermin(confidence) ==
  JItem("termin_anfragen", confidence,
        JSlots(JStr(<<"m","o","r","g","e","n">>), JStr(<<"1","0",":","0","0">>), JNull),
        "termin_vorschlagen")

DocBodies ==
  [ valid |->
      [ email_meta |-> JMeta("de"),
        items |-> JArr(<<JTermin(JNum(90000))>>),
        overall |-> JOverall("termin_anfragen", 90000, FALSE, FALSE) ],
    validTwo |->
      [ email_meta |-> JMeta("de"),
        items |-> JArr(<<JItem("notfall", JNum(100000),
                               JSlots(JNull, JNull, JNull), "notfall_protokoll"),
                         JItem("rezept_anfordern", JNum(60000),
                               JSlots(JNull, JNull, JNull), "rueckfrage_senden")>>),
        overall |-> JOverall("rezept_anfordern", 50000, FALSE, FALSE) ],
    validBoth |->
      [ email_meta |-> JMeta("de"),
        items |-> JArr(<<JTermin(JNum(90000)),
                         JItem("termin_verschieben", JNum(70000),
                               JSlots(JStr(<<"m","o","r","g","e","n">>),
                                      JStr(<<"1","0",":","0","0">>), JNull),
                               "termin_vorschlagen")>>),
        overall |-> JOverall("termin_anfragen", 90000, TRUE, FALSE) ],
    validMedium |->
      [ email_meta |-> JMeta("de"),
        items |-> JArr(<<JTermin(JNum(60000))>>),
        overall |-> JOverall("termin_anfragen", 60000, FALSE, FALSE) ],
    edgeConfidence |->
      [ email_meta |-> JMeta("de"),
        items |-> JArr(<<JItem("allgemeine_info", JNum(0),
                               JSlots(JNull, JNull, JNull), "eskalieren")>>),
        overall |-> JOverall("allgemeine_info", 100000, FALSE, TRUE) ],
    extraKey |->
      [ email_meta |-> JMeta("de"),
        items |-> JArr(<<JTermin(JNum(85000))>>),
        overall |-> JOverall("termin_anfragen", 85000, FALSE, FALSE),
        kommentar |-> JStr(<<"o","k">>) ],
    emptyItems |->
      [ email_meta |-> JMeta("de"),
        items |-> JArr(<<>>),
        overall |-> JOverall("allgemeine_info", 90000, FALSE, FALSE) ],
    confidenceHigh |->
      [ email_meta |-> JMeta("de"),
        items |-> JArr(<<JTermin(JNum(100001))>>),
        overall |-> JOverall("termin_anfragen", 90000, FALSE, FALSE) ],
    confidenceNegative |->
      [ email_meta |-> JMeta("de"),
        items |-> JArr(<<JTermin(JNum(90000)), JTermin(JNum(-1))>>),
        overall |-> JOverall("termin_anfragen", 90000, FALSE, FALSE) ],
    maxConfidenceHigh |->
      [ email_meta |-> JMeta("de"),
        items |-> JArr(<<JTermin(JNum(90000))>>),
        overall |-> JOverall("termin_anfragen", 100001, FALSE, FALSE) ],
    topAbsent |->
      [ email_meta |-> JMeta("de"),
        items |-> JArr(<<JTermin(JNum(90000))>>),
        overall |-> JOverall("rezept_anfordern", 90000, FALSE, FALSE) ],
    badIntent |->
      [ email_meta |-> JMeta("de"),
        items |-> JArr(<<JItem("unbekannt", JNum(90000),
                               JSlots(JNull, JNull, JNull), "eskalieren")>>),
        overall |-> JOverall("allgemeine_info", 90000, FALSE, FALSE) ],
    noOverall |->
      [ email_meta |-> JMeta("de"),
        items |-> JArr(<<JTermin(JNum(90000))>>) ],
    confidenceString |->
      [ email_meta |-> JMeta("de"),
        items |-> JArr(<<JTermin(JStr(<<"0",".","9">>))>>),
        overall |-> JOverall("termin_anfragen", 90000, FALSE, FALSE) ],
    languageEn |->
      [ email_meta |-> JMeta("en"),
        items |-> JArr(<<JTermin(JNum(90000))>>),
        overall |-> JOverall("termin_anfragen", 90000, FALSE, FALSE) ] ]

IsBody(tok) == tok \in DOMAIN DocBodies

\* JSON.parse on a text of lexemes: an object, an empty array, a string literal,
\* or a SyntaxError
JSONparse(txt) ==
  IF Len(txt) = 3 /\ txt[1] = "{" /\ IsBody(txt[2]) /\ txt[3] = "}"
  THEN Ok(JObj(DocBodies[txt[2]]))
  ELSE IF txt = <<"[]">> THEN Ok(JArr(<<>>))
  ELSE IF Len(txt) >= 2 /\ txt[1] = "\"" /\ txt[Len(txt)] = "\""
  THEN Ok(JStr(SubSeq(txt, 2, Len(txt) - 1)))
  ELSE Throw("SyntaxError", <<"Unexpected token in JSON">>)

\* jsonrepair (library): well-formed JSON is returned as it is, an object
\* whose closing brace was cut off is closed, an empty text is rejected; what
\* it makes of any other text is the library's choice (onOther): it gives up,
\* or it returns the text as a JSON string literal
jsonrepair(txt, onOther) ==
  IF JSONparse(txt).ok THEN Ok(txt)
  ELSE IF Len(txt) = 2 /\ txt[1] = "{" /\ IsBody(txt[2])
  THEN Ok(Append(txt, "}"))
  ELSE IF txt = <<>> \/ onOther = "throws"
  THEN Throw("JSONRepairError", <<"Unexpected end of json string">>)
  ELSE Ok(<<"\"">> \o txt \o <<"\"">>)

RepairChoices == {"throws", "quotes"}

\* mutant: the catch block lets the error through as it came
wrapErrorRethrow(error) == [ok |-> FALSE, error |-> error]

\* validate.ts:91-95: every error becomes an Error "Ungueltiges Intent-JSON: ..."
wrapError(error) ==
  Throw("Error", <<"Ungueltiges Intent-JSON: ">> \o error.message)

\* validate.ts:62-68: the code fence around the JSON is removed
stripFences(trimmed) ==
  IF startsWith(trimmed, "FENCE")
  THEN stripFenceClose(stripFenceOpen(trimmed))
  ELSE trimmed

extractBetween(txt, jsonStart, jsonEnd) ==
  IF jsonStart >= 0 /\ jsonEnd >= 0
  THEN substring(txt, jsonStart, jsonEnd + 1)
  ELSE txt

\* validate.ts:70-73: the text from the first { to the last }
extractBlock(txt) == extractBetween(txt, indexOf(txt, "{"), lastIndexOf(txt, "}"))

repairedOr(extracted, repair) == IF repair.ok THEN repair.value ELSE extracted

\* validate.ts:75-81: a failed repair leaves the text as it is
repairText(extracted, onOther) ==
  repairedOr(extracted, jsonrepair(extracted, onOther))

\* validate.ts:86
validateParsed(obj) ==
  IF obj.ok THEN IntentResponseSchemaParse(obj.value) ELSE obj

\* validate.ts:88
checkValidated(validated) ==
  IF validated.ok THEN validatePlausibility(validated.value) ELSE validated

\* validate.ts:91-95
rethrowWrapped(checked) ==
  IF checked.ok THEN checked ELSE wrapError(checked.error)

parseIntentJSON(raw, onOther) ==
  rethrowWrapped(checkValidated(validateParsed(JSONparse(
    repairText(extractBlock(stripFences(trim(raw))), onOther)))))

\* createEmptyResponse(reason)
createEmptyResponse(reason) ==
  [ email_meta |-> [ language |-> "de", received_at_iso |-> Null,
                     priority_indicator |-> Null ],
    items |-> << [ intent |-> "allgemeine_info",
                   confidence |-> 10000,
                   slots |-> [ datum |-> Null, zeit |-> Null,
                               dringlichkeit |-> Null, grund |-> Null,
                               person_name |-> Null, geburtsdatum |-> Null,
                               versicherung |-> Null, medikament |-> Null,
                               symptome |-> Null, kontakt |-> Null,
                               freie_form |-> Str(reason) ],
                   next_action |-> "eskalieren",
                   notes |-> <<"Fehlerhafte Klassifikation: ">> \o reason ] >>,
    overall |-> [ top_intent |-> "allgemeine_info",
                  max_confidence |-> 10000,
                  multi_intent |-> FALSE,
                  sentiment |-> Null,
                  requires_human |-> TRUE ] ]

\* the model answers fed to the parser
Plain(body) == <<"{", body, "}">>

Fenced(body) == <<"FENCE", "json", "\n", "{", body, "}", "\n", "FENCE">>

InProse(body) == <<"Hier", " ", "ist", " ", "{", body, "}", " ", "ok">>

Truncated(body) == <<"{", body>>

Padded(body) == <<" ", "\n", "{", body, "}", "\n">>

RawTexts ==
  UNION { { Plain(b), Fenced(b), InProse(b), Truncated(b), Padded(b) } :
            b \in DOMAIN DocBodies \ {"validBoth"} }
  \cup { Plain("validBoth") }
  \cup { <<>>, <<" ">>, <<"Hier">>, <<"}", " ", "{">>, <<"[]">>, <<"FENCE">>,
         <<"FENCE", "json", "\n", "Hier">> }

----------------------------------------------------------------------------
(* intents/multi.ts *)

INTENT_PRIORITIES ==
  [ notfall |-> 1, termin_anfragen |-> 2, rezept_anfordern |-> 3,
    arbeitsunfaehigkeit |-> 4, befundauskunft |-> 5, termin_verschieben |-> 6,
    termin_absagen |-> 7, laborbefund |-> 8, ueberweisung |-> 9,
    allgemeine_info |-> 10 ]

PROCESSING_DURATION ==
  [ notfall |-> 0, termin_anfragen |-> 2, termin_verschieben |-> 1,
    termin_absagen |-> 1, rezept_anfordern |-> 1, arbeitsunfaehigkeit |-> 3,
    befundauskunft |-> 2, laborbefund |-> 2, ueberweisung |-> 2,
    allgemeine_info |-> 1 ]

\* INTENT_PRIORITIES[intent] || 99
priorityOf(intent) ==
  IF intent \in DOMAIN INTENT_PRIORITIES THEN INTENT_PRIORITIES[intent] ELSE 99

\* PROCESSING_DURATION[intent] || 1
durationOf(intent) ==
  IF intent \in DOMAIN PROCESSING_DURATION /\ PROCESSING_DURATION[intent] # 0
  THEN PROCESSING_DURATION[intent]
  ELSE 1

RECURSIVE sumConfidence(_)
sumConfidence(items) ==
  IF items = <<>> THEN 0
  ELSE Head(items).confidence + sumConfidence(Tail(items))

\* a bucket's confidence is the quotient sum / count, kept as a fraction
bucketOf(intent, items) ==
  [ intent |-> intent, items |-> items,
    confidence |-> [num |-> sumConfidence(items), den |-> Len(items)],
    priority |-> priorityOf(intent) ]

addToBuckets(buckets, item) ==
  IF \E i \in 1..Len(buckets) : buckets[i].intent = item.intent
  THEN LET i == CHOOSE k \in 1..Len(buckets) : buckets[k].intent = item.intent
       IN  [buckets EXCEPT ![i] = bucketOf(item.intent, Append(@.items, item))]
  ELSE Append(buckets, bucketOf(item.intent, <<item>>))

RECURSIVE splitFrom(_, _)
splitFrom(items, buckets) ==
  IF items = <<>> THEN buckets
  ELSE splitFrom(Tail(items), addToBuckets(buckets, Head(items)))

\* the buckets in the insertion order of the Map
splitByIntent(items) == splitFrom(items, <<>>)

sortsBeforeByConfidence(a, b) ==
  b.confidence.num * a.confidence.den < a.confidence.num * b.confidence.den

\* the comparator of prioritizeIntents: a sorts before b
sortsBefore(a, b) ==
  IF a.priority # b.priority THEN a.priority < b.priority
  ELSE b.confidence.num * a.confidence.den < a.confidence.num * b.confidence.den

RECURSIVE insertSorted(_, _)
insertSorted(sorted, b) ==
  IF sorted = <<>> THEN <<b>>
  ELSE IF sortsBefore(b, Head(sorted)) THEN <<b>> \o sorted
  ELSE <<Head(sorted)>> \o insertSorted(Tail(sorted), b)

RECURSIVE sortBuckets(_, _)
sortBuckets(todo, sorted) ==
  IF todo = <<>> THEN sorted
  ELSE sortBuckets(Tail(todo), insertSorted(sorted, Head(todo)))

\* Array.prototype.sort with the comparator (stable)
prioritizeIntents(buckets) == sortBuckets(buckets, <<>>)

RECURSIVE sumDuration(_)
sumDuration(buckets) ==
  IF buckets = <<>> THEN 0
  ELSE durationOf(Head(buckets).intent) * Len(Head(buckets).items)
       + sumDuration(Tail(buckets))

createProcessingPlan(items) ==
  LET bucketMap == splitByIntent(items)
      prioritizedBuckets == prioritizeIntents(bucketMap)
  IN  [ buckets |-> prioritizedBuckets,
        totalItems |-> Len(items),
        multiIntent |-> Len(bucketMap) > 1,
        processingOrder |->
          [ i \in 1..Len(prioritizedBuckets) |-> prioritizedBuckets[i].intent ],
        estimatedDuration |-> sumDuration(prioritizedBuckets) ]

terminIntents == {"termin_anfragen", "termin_verschieben", "termin_absagen"}

areIntentsCompatibleAppointmentRuleOnly(intents) ==
  IF \E i \in 1..Len(intents) : intents[i] \in terminIntents
  THEN \A i \in 1..Len(intents) :
         intents[i] \in terminIntents \cup {"rezept_anfordern", "allgemeine_info"}
  ELSE TRUE

areIntentsCompatible(intents) ==
  IF InSeq("notfall", intents) /\ Len(intents) > 1 THEN FALSE
  ELSE IF \E i \in 1..Len(intents) : intents[i] \in terminIntents
  THEN \A i \in 1..Len(intents) :
         intents[i] \in terminIntents \cup {"rezept_anfordern", "allgemeine_info"}
  ELSE TRUE

RECURSIVE productDen(_)
productDen(buckets) ==
  IF buckets = <<>> THEN 1
  ELSE Head(buckets).confidence.den * productDen(Tail(buckets))

RECURSIVE sumScaled(_, _)
sumScaled(buckets, scale) ==
  IF buckets = <<>> THEN 0
  ELSE Head(buckets).confidence.num * (scale \div Head(buckets).confidence.den)
       + sumScaled(Tail(buckets), scale)

\* avgConfidence < 0.6, where avgConfidence is the mean of the bucket
\* confidences; with no bucket it is NaN and the comparison is false
avgConfidenceBelow(buckets, limit) ==
  /\ buckets # <<>>
  /\ sumScaled(buckets, productDen(buckets))
       < limit * Len(buckets) * productDen(buckets)

levelOf(score) ==
  IF score >= 80000 THEN "critical"
  ELSE IF score >= 50000 THEN "complex"
  ELSE IF score >= 30000 THEN "medium"
  ELSE "simple"

\* the score is the exact sum of the increments; the code adds doubles, whose
\* sum differs from it in the last digits only (0.2 + 0.5 + 0.2 is
\* 0.8999999999999999) and falls on the same side of every level limit
analyzeComplexity(plan) ==
  LET n == Len(plan.buckets)
      many == n > 1
      emergency == \E i \in 1..n : plan.buckets[i].intent = "notfall"
      lowConfidence == avgConfidenceBelow(plan.buckets, 60000)
      long == plan.estimatedDuration > 5
      intents == [ i \in 1..n |-> plan.buckets[i].intent ]
      incompatible == ~areIntentsCompatible(intents)
      score == (IF many THEN 20000 * Min(n - 1, 3) ELSE 0)
               + (IF emergency THEN 50000 ELSE 0)
               + (IF lowConfidence THEN 30000 ELSE 0)
               + (IF long THEN 20000 ELSE 0)
               + (IF incompatible THEN 30000 ELSE 0)
  IN  [ level |-> levelOf(score),
        score |-> score,
        factors |->
          (IF many THEN <<ToString(n) \o " verschiedene Anliegen">> ELSE <<>>)
          \o (IF emergency THEN <<"Notfall erkannt">> ELSE <<>>)
          \o (IF lowConfidence THEN <<"Niedrige Erkennungssicherheit">> ELSE <<>>)
          \o (IF long THEN <<"Laengere Bearbeitungszeit erwartet">> ELSE <<>>)
          \o (IF incompatible THEN <<"Inkompatible Anliegen-Kombination">> ELSE <<>>) ]

----------------------------------------------------------------------------
(* time/businessHours.ts *)

\* a clock text "HH:MM" is a sequence of characters, an interval a pair of
\* clock texts, a calendar date "YYYY-MM-DD" a sequence of characters
DEFAULT_BUSINESS_HOURS ==
  [ mon |-> << <<<<"0","8",":","0","0">>, <<"1","2",":","0","0">>>>,
             <<<<"1","4",":","0","0">>, <<"1","8",":","0","0">>>> >>,
    tue |-> << <<<<"0","8",":","0","0">>, <<"1","2",":","0","0">>>>,
             <<<<"1","4",":","0","0">>, <<"1","8",":","0","0">>>> >>,
    wed |-> << <<<<"0","8",":","0","0">>, <<"1","2",":","0","0">>>> >>,
    thu |-> << <<<<"0","8",":","0","0">>, <<"1","2",":","0","0">>>>,
             <<<<"1","4",":","0","0">>, <<"1","8",":","0","0">>>> >>,
    fri |-> << <<<<"0","8",":","0","0">>, <<"1","3",":","0","0">>>> >>,
    sat |-> <<>>,
    sun |-> <<>> ]

Holiday(date, name) == [date |-> date, name |-> name, type |-> "federal"]

DEFAULT_HOLIDAYS ==
  << Holiday(<<"2","0","2","4","-","0","1","-","0","1">>, "Neujahr"),
     Holiday(<<"2","0","2","4","-","0","3","-","2","9">>, "Karfreitag"),
     Holiday(<<"2","0","2","4","-","0","4","-","0","1">>, "Ostermontag"),
     Holiday(<<"2","0","2","4","-","0","5","-","0","1">>, "Tag der Arbeit"),
     Holiday(<<"2","0","2","4","-","0","5","-","0","9">>, "Christi Himmelfahrt"),
     Holiday(<<"2","0","2","4","-","0","5","-","2","0">>, "Pfingstmontag"),
     Holiday(<<"2","0","2","4","-","1","0","-","0","3">>, "Tag der Deutschen Einheit"),
     Holiday(<<"2","0","2","4","-","1","2","-","2","5">>, "1. Weihnachtsfeiertag"),
     Holiday(<<"2","0","2","4","-","1","2","-","2","6">>, "2. Weihnachtsfeiertag"),
     Holiday(<<"2","0","2","5","-","0","1","-","0","1">>, "Neujahr"),
     Holiday(<<"2","0","2","5","-","0","4","-","1","8">>, "Karfreitag"),
     Holiday(<<"2","0","2","5","-","0","4","-","2","1">>, "Ostermontag"),
     Holiday(<<"2","0","2","5","-","0","5","-","0","1">>, "Tag der Arbeit"),
     Holiday(<<"2","0","2","5","-","0","5","-","2","9">>, "Christi Himmelfahrt"),
     Holiday(<<"2","0","2","5","-","0","6","-","0","9">>, "Pfingstmontag"),
     Holiday(<<"2","0","2","5","-","1","0","-","0","3">>, "Tag der Deutschen Einheit"),
     Holiday(<<"2","0","2","5","-","1","2","-","2","5">>, "1. Weihnachtsfeiertag"),
     Holiday(<<"2","0","2","5","-","1","2","-","2","6">>, "2. Weihnachtsfeiertag") >>

Digits == <<"0","1","2","3","4","5","6","7","8","9">>

RECURSIVE digitsValue(_)
digitsValue(s) ==
  IF s = <<>> THEN 0
  ELSE digitsValue(SubSeq(s, 1, Len(s) - 1)) * 10 + indexOf(Digits, s[Len(s)])

NaN == [nan |-> TRUE, v |-> 0]

\* Number(text): decimal digits give their value, the empty text gives 0,
\* any other text of this model gives NaN
Number(s) ==
  IF \A i \in 1..Len(s) : indexOf(Digits, s[i]) >= 0
  THEN [nan |-> FALSE, v |-> digitsValue(s)]
  ELSE NaN

\* text.split(":")
RECURSIVE split(_)
split(s) ==
  IF indexOf(s, ":") = -1 THEN <<s>>
  ELSE <<SubSeq(s, 1, indexOf(s, ":"))>>
         \o split(SubSeq(s, indexOf(s, ":") + 2, Len(s)))

\* const [hours, minutes] = text.split(":").map(Number): a part that is
\* missing is undefined, which isNaN reports as NaN
hoursMinutesOf(parts) ==
  [ h |-> Number(parts[1]),
    m |-> IF Len(parts) >= 2 THEN Number(parts[2]) ELSE NaN ]

\* mutant: the end of an interval is not part of it
withinSlotEndExclusive(totalMinutes, s, e) ==
  IF s.h.nan \/ s.m.nan \/ e.h.nan \/ e.m.nan THEN FALSE
  ELSE /\ totalMinutes >= s.h.v * 60 + s.m.v
       /\ totalMinutes < e.h.v * 60 + e.m.v

\* businessHours.ts:188-200: an interval with a text that is no number is
\* skipped; both ends belong to the interval
withinSlot(totalMinutes, s, e) ==
  IF s.h.nan \/ s.m.nan \/ e.h.nan \/ e.m.nan THEN FALSE
  ELSE /\ totalMinutes >= s.h.v * 60 + s.m.v
       /\ totalMinutes <= e.h.v * 60 + e.m.v

\* what the settings table of the database holds: no row, or the rows found
NoRows == [rows |-> FALSE]

\* the settings a database may hold: none, or opening hours for Tuesday
\* only, from midnight on
DbSettings ==
  { NoRows,
    [ rows |-> TRUE,
      hours |-> [ tue |-> << << <<"0","0",":","0","0">>,
                               <<"1","1",":","0","0">> >> >> ] ] }

\* businessHours.ts:81-124: the days found in the database replace the whole
\* table; the reference to Config (declared nowhere) then throws, which the
\* outer catch absorbs, so the holidays stay as they are
loadFromConfig(hours, db) == IF db.rows THEN db.hours ELSE hours

\* the table a call works on: loaded first when not yet initialized
loadedHours(hours, initialized, db) ==
  IF initialized THEN hours ELSE loadFromConfig(hours, db)

\* the year, month and day of a calendar date "YYYY-MM-DD"
yearOf(date) == digitsValue(SubSeq(date, 1, 4))

monthOf(date) == digitsValue(SubSeq(date, 6, 7))

dayOfMonth(date) == digitsValue(SubSeq(date, 9, 10))

\* Date.prototype.getDay: 0 is Sunday (Zeller's congruence, January and
\* February counted as months 13 and 14 of the year before)
getDay(date) ==
  LET m == IF monthOf(date) < 3 THEN monthOf(date) + 12 ELSE monthOf(date)
      y == IF monthOf(date) < 3 THEN yearOf(date) - 1 ELSE yearOf(date)
      h == (dayOfMonth(date) + ((13 * (m + 1)) \div 5) + (y % 100)
            + ((y % 100) \div 4) + ((y \div 100) \div 4) + 5 * (y \div 100)) % 7
  IN  (h + 6) % 7

\* businessHours.ts:131-135
getDayKey(date) == <<"sun", "mon", "tue", "wed", "thu", "fri", "sat">>[getDay(date) + 1]

isHoliday(dateStr, holidayList) ==
  \E i \in 1..Len(holidayList) : holidayList[i].date = dateStr

\* an instant: valid (parseISO understood the text) with its local calendar
\* date and minute of the day, or invalid
InvalidInstant == [valid |-> FALSE, dateOnly |-> <<>>, minutes |-> 0]

Instant(dateOnly, minutes) ==
  [valid |-> TRUE, dateOnly |-> dateOnly, minutes |-> minutes]

\* the table's intervals for the weekday of a date, none when the table has
\* no entry for it
slotsFor(dateOnly, hours) ==
  IF getDayKey(dateOnly) \in DOMAIN hours THEN hours[getDayKey(dateOnly)] ELSE <<>>

\* businessHours.ts:187-203
withinSomeSlot(totalMinutes, timeSlots) ==
  \E i \in 1..Len(timeSlots) :
    withinSlot(totalMinutes, hoursMinutesOf(split(timeSlots[i][1])),
               hoursMinutesOf(split(timeSlots[i][2])))

\* businessHours.ts:160-207, on the table in force
isWithinBusinessHours(t, hours, holidayList) ==
  IF ~t.valid THEN FALSE
  ELSE IF isHoliday(t.dateOnly, holidayList) THEN FALSE
  ELSE withinSomeSlot(t.minutes, slotsFor(t.dateOnly, hours))

\* businessHours[dayKey] = hours
setDay(table, dayKey, hours) ==
  [ d \in DOMAIN table \cup {dayKey} |-> IF d = dayKey THEN hours ELSE table[d] ]

\* a.date.localeCompare(b.date) for calendar dates: the order of the digits
dateKey(date) == digitsValue(SelectSeq(date, LAMBDA c : c # "-"))

RECURSIVE insertByDate(_, _)
insertByDate(sorted, holiday) ==
  IF sorted = <<>> THEN <<holiday>>
  ELSE IF dateKey(holiday.date) < dateKey(Head(sorted).date)
  THEN <<holiday>> \o sorted
  ELSE <<Head(sorted)>> \o insertByDate(Tail(sorted), holiday)

\* Array.prototype.sort, which is stable
RECURSIVE sortByDate(_)
sortByDate(list) ==
  IF list = <<>> THEN <<>>
  ELSE insertByDate(sortByDate(SubSeq(list, 1, Len(list) - 1)), list[Len(list)])

\* businessHours.ts:376-386
addHolidayTo(holidayList, holiday) ==
  sortByDate(
    IF isHoliday(holiday.date, holidayList)
    THEN [ i \in 1..Len(holidayList) |->
             IF i = (CHOOSE k \in 1..Len(holidayList) :
                       /\ holidayList[k].date = holiday.date
                       /\ \A j \in 1..(k - 1) : holidayList[j].date # holiday.date)
             THEN holiday ELSE holidayList[i] ]
    ELSE Append(holidayList, holiday))

\* format(date, "HH:mm")
formatHHmm(minutesOfDay) ==
  LET h == (minutesOfDay \div 60) % 24
      m == minutesOfDay % 60
  IN  <<Digits[(h \div 10) + 1], Digits[(h % 10) + 1], ":",
        Digits[(m \div 10) + 1], Digits[(m % 10) + 1]>>

----------------------------------------------------------------------------
(* the client of the time-parsing service (parseTimesDe), kept in         *)
(* observability/metrics.ts                                                *)

\* the first hit of an answer: none, or one instant with its calendar date
\* and its minute of the day
NoHit == [found |-> FALSE]

\* "morgen", asked on 2026-11-02
DateHit ==
  [ found |-> TRUE,
    dateOnly |-> <<"2","0","2","6","-","1","1","-","0","3">>,
    formatted |-> <<"Dienstag, 3. November 2026">>,
    minutes |-> 0 ]

TimeHits ==
  { [ found |-> TRUE,
      dateOnly |-> <<"2","0","2","6","-","1","1","-","0","2">>,
      formatted |-> <<"Montag, 2. November 2026">>,
      minutes |-> m ] : m \in {600, 1430} }

isoOf(hit) == hit.dateOnly \o <<"T">> \o formatHHmm(hit.minutes)

\* what becomes of one request to the service: an answer, a network error
\* or a status that is not OK, or no answer within the time limit
ServiceOk(hit) == [kind |-> "ok", hit |-> hit]

ServiceError == [kind |-> "error", hit |-> NoHit]

ServiceTimeout == [kind |-> "timeout", hit |-> NoHit]

\* metrics.ts:90-140: the hits of the answer; every failure is caught and
\* gives the empty list
parseTimesDe(outcome) == IF outcome.kind = "ok" THEN outcome.hit ELSE NoHit

\* no request is sent for a slot that is null or empty
NoRequest == [kind |-> "none", hit |-> NoHit]

DateOutcomes ==
  {ServiceOk(NoHit), ServiceOk(DateHit), ServiceError, ServiceTimeout}

TimeOutcomes == {ServiceOk(h) : h \in TimeHits} \cup {ServiceError}

\* the outcomes of the requests for a date slot and for a time slot
Worlds ==
  [ date : DateOutcomes \cup {NoRequest}, time : TimeOutcomes \cup {NoRequest} ]

----------------------------------------------------------------------------
(* time/normalize.ts *)

\* JavaScript truthiness of a string | null
truthy(v) == ~v.isNull /\ v.s # <<>>

IsWordChar(c) ==
  \/ \E i \in 1..Len(Upper) : Upper[i] = c \/ LowerOf[i] = c
  \/ c \in {"0","1","2","3","4","5","6","7","8","9","_"}

\* /\bword\b/i
matchesWord(text, word) ==
  \E i \in 1..(Len(text) - Len(word) + 1) :
    /\ SubSeq(toLowerCase(text), i, i + Len(word) - 1) = word
    /\ i = 1 \/ ~IsWordChar(text[i - 1])
    /\ i + Len(word) > Len(text) \/ ~IsWordChar(text[i + Len(word)])

\* isRelativeTimeExpression: the first pattern; the other patterns need a
\* blank between two words, which no slot text of this model has
isRelativeTimeExpression(text) ==
  \/ matchesWord(text, <<"h","e","u","t","e">>)
  \/ matchesWord(text, <<"m","o","r","g","e","n">>)

unresolvedDate(raw, isRelative) ==
  [ raw |-> raw, iso |-> Null, dateOnly |-> Null, formatted |-> Null,
    withinBH |-> "null", isRelative |-> isRelative ]

\* a boolean | null of the code is "true", "false" or "null"
boolOf(b) == IF b THEN "true" ELSE "false"

\* normalize.ts:65-104: the date of the first hit; the verdict is the one
\* for the start of that day
startOfBusiness(dateOnly) == Instant(dateOnly, 8 * 60)

\* normalize.ts:94: startOfDay(date)
startOfDay(dateOnly) == Instant(dateOnly, 0)

resolvedDate(raw, hit, hours, holidayList) ==
  IF ~hit.found
  THEN unresolvedDate(raw, isRelativeTimeExpression(raw.s))
  ELSE [ raw |-> raw, iso |-> Str(isoOf(hit)),
         dateOnly |-> Str(hit.dateOnly),
         formatted |-> Str(hit.formatted),
         withinBH |->
           boolOf(isWithinBusinessHours(startOfDay(hit.dateOnly), hours, holidayList)),
         isRelative |-> isRelativeTimeExpression(raw.s) ]

normalizeDateSlot(raw, outcome, hours, holidayList) ==
  IF ~truthy(raw) THEN unresolvedDate(Null, FALSE)
  ELSE resolvedDate(raw, parseTimesDe(outcome), hours, holidayList)

unresolvedTime(raw, isRelative) ==
  [ raw |-> raw, iso |-> Null, timeOnly |-> Null, range |-> <<>>,
    formatted |-> Null, isRelative |-> isRelative ]

\* normalize.ts:149-190
resolvedTime(raw, hit, slotDurationMinutes) ==
  IF ~hit.found
  THEN unresolvedTime(raw, isRelativeTimeExpression(raw.s))
  ELSE [ raw |-> raw, iso |-> Str(isoOf(hit)),
         timeOnly |-> Str(formatHHmm(hit.minutes)),
         range |-> <<formatHHmm(hit.minutes),
                     formatHHmm(hit.minutes + slotDurationMinutes)>>,
         formatted |-> Str(formatHHmm(hit.minutes) \o <<"-">>
                           \o formatHHmm(hit.minutes + slotDurationMinutes)
                           \o <<" Uhr">>),
         isRelative |-> isRelativeTimeExpression(raw.s) ]

normalizeTimeSlot(raw, slotDurationMinutes, outcome) ==
  IF ~truthy(raw) THEN unresolvedTime(Null, FALSE)
  ELSE resolvedTime(raw, parseTimesDe(outcome), slotDurationMinutes)

\* normalize.ts:259-281: the instant of a date and a clock text, invalid
\* (null) when the clock text holds no two numbers
instantOf(dateIso, hm) ==
  IF hm.h.nan \/ hm.m.nan THEN InvalidInstant
  ELSE Instant(dateIso, hm.h.v * 60 + hm.m.v)

combineDateTimeToISO(dateIso, timeStr) ==
  instantOf(dateIso, hoursMinutesOf(split(timeStr)))

\* withinBH of normalizeDateTimeSlots for a combined instant: null when
\* there is none
verdictAt(combined, hours, holidayList) ==
  IF combined.valid
  THEN boolOf(isWithinBusinessHours(combined, hours, holidayList))
  ELSE "null"

\* format(new Date(), "yyyy-MM-dd"): the day the process runs on
Today == <<"2","0","2","6","-","1","1","-","0","2">>

\* normalize.ts:224-250: the verdict for the combined instant, for the day
\* alone, for the time today, or none
combineNorms(dateNorm, timeNorm, hours, holidayList) ==
  [ date |-> dateNorm,
    time |-> timeNorm,
    withinBH |->
      IF truthy(dateNorm.dateOnly) /\ truthy(timeNorm.timeOnly)
      THEN verdictAt(combineDateTimeToISO(dateNorm.dateOnly.s, timeNorm.timeOnly.s),
                     hours, holidayList)
      ELSE IF truthy(dateNorm.iso) THEN dateNorm.withinBH
      ELSE IF truthy(timeNorm.iso)
      THEN verdictAt(combineDateTimeToISO(Today, timeNorm.timeOnly.s),
                     hours, holidayList)
      ELSE "null" ]

\* world: what the time-parsing service does with the request for the date
\* slot and with the one for the time slot
normalizeDateTimeSlots(dateRaw, timeRaw, slotDurationMinutes, world, hours, holidayList) ==
  combineNorms(normalizeDateSlot(dateRaw, world.date, hours, holidayList),
               normalizeTimeSlot(timeRaw, slotDurationMinutes, world.time),
               hours, holidayList)

\* the worlds of one item: a request for each slot that has a text
WorldsFor(slots) ==
  { w \in Worlds : /\ (w.date = NoRequest) <=> ~truthy(slots.datum)
                   /\ (w.time = NoRequest) <=> ~truthy(slots.zeit) }

\* some normalization of the item asks isWithinBusinessHours
consultsBusinessHours(slots, world) ==
  \/ truthy(slots.datum) /\ parseTimesDe(world.date).found
  \/ truthy(slots.zeit) /\ parseTimesDe(world.time).found

----------------------------------------------------------------------------
(* pipeline/classifyExtract.ts *)

DEFAULT_OPTIONS ==
  [ slotDurationMinutes |-> 15,
    normalizeSlots |-> TRUE,
    llmModel |-> "claude-3.5-sonnet",
    enableFallback |-> TRUE,
    timeout |-> 30000 ]

\* { ...DEFAULT_OPTIONS, ...options }
MergeOptions(options) ==
  [ k \in DOMAIN DEFAULT_OPTIONS |->
      IF k \in DOMAIN options THEN options[k] ELSE DEFAULT_OPTIONS[k] ]

\* createIntentPrompt: the instructions followed by the trimmed message
createIntentPrompt(email) == <<"Du bist eine Intent-Extraktions-Engine">> \o trim(email)

\* a thrown value: an Error (of any class) with its message, or a string
ErrorOf(message) == [name |-> "Error", message |-> message]

ThrownString(text) == [name |-> "string", message |-> text]

\* error instanceof Error ? error.message : String(error)
messageOf(error) == error.message

\* mutant: a parse error is always rethrown, enableFallback is not consulted
fallbackOrRethrow(r, opts) ==
  IF r.ok
  THEN [ ok |-> TRUE, parsed |-> r.value, parsingError |-> Null,
         warnings |-> <<>> ]
  ELSE [ ok |-> FALSE, error |-> r.error ]

\* classifyExtract.ts:161-171: on a parse error substitute the fallback
\* response when enableFallback is set, else rethrow
fallbackOr(r, opts) ==
  IF r.ok
  THEN [ ok |-> TRUE, parsed |-> r.value, parsingError |-> Null,
         warnings |-> <<>> ]
  ELSE IF opts.enableFallback
  THEN [ ok |-> TRUE,
         parsed |-> createEmptyResponse(
                      <<"Parsing-Fehler: ">> \o messageOf(r.error)),
         parsingError |-> Str(messageOf(r.error)),
         warnings |-> << <<"JSON-Parsing fehlgeschlagen, verwende Fallback">> >> ]
  ELSE [ ok |-> FALSE, error |-> r.error ]

\* classifyExtract.ts:158-171
parseStep(response, opts, onOther) ==
  fallbackOr(parseIntentJSON(response, onOther), opts)

\* classifyExtract.ts:197-223: one item with the result of its normalization
withDateTime(item, dateTime) ==
  [ intent |-> item.intent,
    confidence |-> item.confidence,
    slots |->
      [ item.slots EXCEPT
          !.datum = IF truthy(dateTime.date.dateOnly)
                    THEN dateTime.date.dateOnly ELSE @,
          !.zeit = IF truthy(dateTime.time.timeOnly)
                   THEN Str(dateTime.time.range[1] \o <<"-">> \o dateTime.time.range[2])
                   ELSE @ ],
    next_action |-> item.next_action,
    notes |-> item.notes,
    meta |-> [ date_normalized |-> dateTime.date.formatted,
               time_normalized |-> dateTime.time.formatted,
               within_business_hours |-> dateTime.withinBH,
               is_relative_date |-> dateTime.date.isRelative,
               is_relative_time |-> dateTime.time.isRelative ] ]

\* classifyExtract.ts:175-224: the normalized copy of the parsed response
normalizeItems(parsed, opts, worlds, hours, holidayList) ==
  [ parsed EXCEPT !.items =
      [ i \in 1..Len(parsed.items) |->
          withDateTime(parsed.items[i],
                       normalizeDateTimeSlots(parsed.items[i].slots.datum,
                                              parsed.items[i].slots.zeit,
                                              opts.slotDurationMinutes,
                                              worlds[i], hours, holidayList)) ] ]

parsedRewritten(parsed, normalized) == normalized

\* classifyExtract.ts:175: the items are rewritten in a structuredClone, no
\* object is shared with parsed, which keeps its value
parsedAfterNormalization(parsed, normalized) == parsed

resultOf(email, llmResult, step, normalized, processingPlan) ==
  [ originalEmail |-> email,
    llmResponse |-> llmResult.response,
    llmModel |-> llmResult.model,
    parsed |-> parsedAfterNormalization(step.parsed, normalized),
    normalized |-> normalized,
    parsingError |-> step.parsingError,
    decision |-> gate(normalized, email),
    processingPlan |-> processingPlan,
    complexity |-> analyzeComplexity(processingPlan),
    success |-> TRUE,
    error |-> Null,
    warnings |-> step.warnings ]

\* classifyExtract.ts:226-253
successResult(email, llmResult, step, normalized) ==
  resultOf(email, llmResult, step, normalized,
           createProcessingPlan(normalized.items))

\* classifyExtract.ts:255-289
failureResult(email, error, warnings) ==
  [ originalEmail |-> email,
    llmResponse |-> <<>>,
    llmModel |-> "",
    parsed |-> createEmptyResponse(<<"Kritischer Fehler">>),
    normalized |-> createEmptyResponse(<<"Kritischer Fehler">>),
    parsingError |-> Null,
    decision |-> [ action |-> "ESCALATE", items |-> <<>>,
                   reason |-> <<"Kritischer Fehler bei der Klassifikation">>,
                   confidence |-> 0 ],
    processingPlan |-> [ buckets |-> <<>>, totalItems |-> 0,
                         multiIntent |-> FALSE, processingOrder |-> <<>>,
                         estimatedDuration |-> 0 ],
    complexity |-> [ level |-> "critical", score |-> 100000,
                     factors |-> <<"Klassifikationsfehler">> ],
    success |-> FALSE,
    error |-> Str(messageOf(error)),
    warnings |-> warnings ]

\* the promise classifyEmail returned, once it is settled
Fulfilled(value) == [status |-> "fulfilled", value |-> value]

\* mutant: the race is never decided, every completion is acted upon
raceUnsettledAlways(pc) == pc # "idle"

\* Promise.race (classifyExtract.ts:145): the first promise to settle decides;
\* the function is still suspended at the await
raceUnsettled(pc) == pc = "awaitLLM"

----------------------------------------------------------------------------
(* Inputs of the gate specification *)

Morgen == <<"m","o","r","g","e","n">>

ZehnUhr == <<"1","0",":","0","0">>

Ibuprofen == <<"I","b","u","p","r","o","f","e","n">>

Hilfe == <<"H","i","l","f","e">>

NoSlots == IntentSlots(Null, Null, Null, Null)

\* validated items: emergency items of low and high confidence, an item that
\* is an emergency only by its next_action, and routine items with complete,
\* null, empty and blank required slots
SampleItems ==
  { IntentItem("notfall", 10000, NoSlots, "notfall_protokoll"),
    IntentItem("notfall", 90000, NoSlots, "eskalieren"),
    IntentItem("allgemeine_info", 80000, NoSlots, "notfall_protokoll"),
    IntentItem("termin_anfragen", 99000,
               IntentSlots(Str(Morgen), Str(ZehnUhr), Null, Null),
               "termin_vorschlagen"),
    IntentItem("termin_anfragen", 90000, NoSlots, "slots_vervollstaendigen"),
    IntentItem("termin_anfragen", 10000,
               IntentSlots(Str(<<" ">>), Str(<<>>), Null, Null),
               "rueckfrage_senden"),
    IntentItem("rezept_anfordern", 99000,
               IntentSlots(Null, Null, Null, Str(Ibuprofen)),
               "sofort_termin"),
    IntentItem("rezept_anfordern", 10000,
               IntentSlots(Str(Morgen), Null, Null, Str(<<" ", "\t">>)),
               "eskalieren"),
    IntentItem("allgemeine_info", 99000, NoSlots, "rueckfrage_senden") }

ItemLists == UNION { [1..n -> SampleItems] : n \in 1..MaxItems }

SampleConfidences == {49999, 50000, 84999, 85000}

\* validated responses: the declared max_confidence is free (a mismatch with
\* the items is only a warning, validate.ts:109-113)
Responses ==
  { [ email_meta |-> [ language |-> "de", received_at_iso |-> Null,
                       priority_indicator |-> Null ],
      items |-> items,
      overall |-> [ top_intent |-> items[1].intent,
                    max_confidence |-> c,
                    multi_intent |-> Cardinality(Intents(items)) > 1,
                    sentiment |-> Null,
                    requires_human |-> h ] ]
    : items \in ItemLists, c \in SampleConfidences, h \in BOOLEAN }

Texts ==
  { <<>>,
    <<"T","e","r","m","i","n"," ","a","m"," ","M","o","n","t","a","g">>,
    <<"E","r"," ","i","s","t"," ","B","E","W","U","S","S","T","L","O","S">>,
    <<"U","n","f","a","l","l","c","h","i","r","u","r","g">>,
    <<"H","i","l","f","e","!">> }

\* configurations a caller installs with configureGates
ConfigPatches ==
  { [ autoProcessThreshold |-> 70000, confirmThreshold |-> 30000,
      escalateThreshold |-> 60000 ],
    [ emergencyKeywords |-> <<Hilfe>>,
      requiredSlots |-> [ termin_anfragen |-> <<"datum">>,
                          allgemeine_info |-> <<"kontakt">> ] ] }

NotCalled == [action |-> "none"]

----------------------------------------------------------------------------
(* Gate specification: a configured process decides one response *)

ParseIdle == parseRaw = <<>> /\ parseResult = NotCalled

IdleLlm == [calls |-> 0, state |-> "idle", prompt |-> <<>>, response |-> <<>>]

NoHeld == [ok |-> FALSE]

ClassifyIdle ==
  /\ clsEmail = <<>>
  /\ clsOpts = DEFAULT_OPTIONS
  /\ clsPc = "idle"
  /\ clsLlm = IdleLlm
  /\ clsTimer = "unset"
  /\ clsHeld = NoHeld
  /\ clsResult = NotCalled
  /\ clsWorlds = <<>>

\* the business-hours module as it is loaded
BhIdle ==
  /\ bhHours = DEFAULT_BUSINESS_HOURS
  /\ bhHolidays = DEFAULT_HOLIDAYS
  /\ bhInitialized = FALSE
  /\ bhQuery = InvalidInstant
  /\ bhVerdict = "none"

\* the components that stand alone, at rest
CacheIdle ==
  /\ tcCache = <<>>
  /\ tcNow = 0
  /\ tcTasks = <<>>
  /\ tcLast = NotCalled
  /\ tcStoredAt = <<>>

BatchIdle ==
  /\ batEmails = <<>>
  /\ batStart = 0
  /\ batCalls = <<>>
  /\ batResults = <<>>
  /\ batPc = "idle"

CompatIdle == cmpIntents = <<>> /\ cmpResult = "none"

PlanIdle ==
  /\ planItems = <<>>
  /\ planResult = NotCalled
  /\ planAnalysis = NotCalled
  /\ CompatIdle

\* callers that share calendar.db
ReserveCallers == {"imapWorker", "calendarApi"}

\* the arguments reserve is called with
ReserveResources == {"Labor", "Sprechzimmer"}
ReserveSlots == {"2026-11-03T09:00", "2026-11-03T09:30"}
ReservePatients == {"hashA", "hashB"}

\* the (resource_id, slot_ts, patient_hash) values a row of reservations can hold
ReserveRows == ReserveResources \X ReserveSlots \X ReservePatients

\* a caller outside reserve
IdleCaller == [pc |-> "idle"]

\* no reserve call has finished yet
NothingReturned == [outcome |-> "none", ok |-> FALSE, reason |-> "", changed |-> FALSE]

ReserveIdle ==
  /\ resResources = {}
  /\ resCapacity = {}
  /\ resReservations = [row \in ReserveRows |-> 0]
  /\ resTasks = [t \in ReserveCallers |-> IdleCaller]
  /\ resLast = NothingReturned

AuxIdle == CacheIdle /\ BatchIdle /\ PlanIdle /\ ReserveIdle

GateIdle ==
  /\ gateConfig = DEFAULT_CONFIG
  /\ gateResp = createEmptyResponse(<<>>)
  /\ gateText = <<>>
  /\ gateDecision = NotCalled
  /\ gateUsed = DEFAULT_CONFIG

GateInit ==
  /\ ParseIdle
  /\ ClassifyIdle
  /\ BhIdle
  /\ AuxIdle
  /\ gateConfig = DEFAULT_CONFIG
  /\ gateResp \in Responses
  /\ gateText \in Texts
  /\ gateDecision = NotCalled
  /\ gateUsed = DEFAULT_CONFIG

ConfigureGates ==
  \E config \in ConfigPatches :
    /\ MergeConfig(gateConfig, config) # gateConfig
    /\ configureGates(config)
    /\ UNCHANGED <<gateResp, gateText, gateDecision, gateUsed, parseVars, clsVars,
                    bhVars, auxVars>>

GateCall ==
  /\ gateDecision = NotCalled
  /\ gateDecision' = gate(gateResp, gateText)
  /\ gateUsed' = gateConfig
  /\ UNCHANGED <<gateConfig, gateResp, gateText, parseVars, clsVars, bhVars,
                 auxVars>>

GateNext == ConfigureGates \/ GateCall

vars == <<gateVars, parseVars, clsVars, bhVars, auxVars>>

GateSpec == GateInit /\ [][GateNext]_vars

----------------------------------------------------------------------------
(* Parser specification: parseIntentJSON is applied to one model answer *)

ParseInit ==
  /\ GateIdle
  /\ ClassifyIdle
  /\ BhIdle
  /\ AuxIdle
  /\ parseRaw \in RawTexts
  /\ parseResult = NotCalled

ParseCall ==
  /\ parseResult = NotCalled
  /\ \E onOther \in RepairChoices :
       parseResult' = parseIntentJSON(parseRaw, onOther)
  /\ UNCHANGED <<parseRaw, gateVars, clsVars, bhVars, auxVars>>

ParseNext == ParseCall

ParseSpec == ParseInit /\ [][ParseNext]_vars

----------------------------------------------------------------------------
(* Pipeline specification: one call of classifyEmail, its model caller and *)
(* its timer                                                               *)

ClsEmails ==
  { <<>>,
    <<"T","e","r","m","i","n"," ","a","m"," ","M","o","n","t","a","g">>,
    <<"E","r"," ","i","s","t"," ","B","E","W","U","S","S","T","L","O","S">> }

\* the options a caller passes
ClsOptions ==
  { [ timeout |-> 5000 ],
    [ enableFallback |-> FALSE ],
    [ normalizeSlots |-> FALSE ],
    [ enableFallback |-> FALSE, normalizeSlots |-> FALSE ] }

\* what the model caller throws or rejects with
ProviderErrors ==
  { ErrorOf(<<"ECONNREFUSED">>), ErrorOf(<<>>), ThrownString(<<"overloaded">>) }

ClassifyInit ==
  /\ GateIdle
  /\ ParseIdle
  /\ BhIdle
  /\ AuxIdle
  /\ clsEmail \in ClsEmails
  /\ \E options \in ClsOptions : clsOpts = MergeOptions(options)
  /\ clsPc = "idle"
  /\ clsLlm = IdleLlm
  /\ clsTimer = "unset"
  /\ clsHeld = NoHeld
  /\ clsResult = NotCalled
  /\ clsWorlds = <<>>

\* classifyExtract.ts:136-150: the call up to its first await.  The model
\* caller is invoked first; if it throws at once the timer is never created
ClassifyStart ==
  /\ clsPc = "idle"
  /\ \/ /\ clsLlm' = [ calls |-> clsLlm.calls + 1, state |-> "pending",
                       prompt |-> createIntentPrompt(clsEmail),
                       response |-> <<>> ]
        /\ clsTimer' = "armed"
        /\ clsPc' = "awaitLLM"
        /\ UNCHANGED clsResult
     \/ \E error \in ProviderErrors :
          /\ clsLlm' = [ calls |-> clsLlm.calls + 1, state |-> "threw",
                         prompt |-> createIntentPrompt(clsEmail),
                         response |-> <<>> ]
          /\ clsPc' = "done"
          /\ clsResult' = Fulfilled(failureResult(clsEmail, error, <<>>))
          /\ UNCHANGED clsTimer
  /\ UNCHANGED <<clsEmail, clsOpts, clsHeld, clsWorlds, gateVars, parseVars,
                 bhVars, auxVars>>

\* classifyExtract.ts:152-177: the call resumes with the model's answer and
\* runs to its next await or to its end
resumeWith(llmResult, step) ==
  IF ~step.ok
  THEN /\ clsPc' = "done"
       /\ clsResult' = Fulfilled(failureResult(clsEmail, step.error, <<>>))
       /\ UNCHANGED clsHeld
  ELSE IF clsOpts.normalizeSlots
  THEN /\ clsPc' = "normalizing"
       /\ clsHeld' = [ok |-> TRUE, llmResult |-> llmResult, step |-> step]
       /\ UNCHANGED clsResult
  ELSE /\ clsPc' = "done"
       /\ clsResult' =
            Fulfilled(successResult(clsEmail, llmResult, step, step.parsed))
       /\ UNCHANGED clsHeld

\* the model caller's promise fulfils; the call resumes only if it still
\* awaits the race
LLMResolve ==
  /\ clsLlm.state = "pending"
  /\ \E response \in RawTexts, onOther \in RepairChoices :
       /\ clsLlm' = [clsLlm EXCEPT !.state = "resolved",
                                    !.response = response]
       /\ IF raceUnsettled(clsPc)
          THEN resumeWith([response |-> response, model |-> clsOpts.llmModel],
                          parseStep(response, clsOpts, onOther))
          ELSE UNCHANGED <<clsPc, clsHeld, clsResult>>
  /\ UNCHANGED <<clsEmail, clsOpts, clsTimer, clsWorlds, gateVars, parseVars,
                 bhVars, auxVars>>

\* the model caller's promise rejects
LLMReject ==
  /\ clsLlm.state = "pending"
  /\ \E error \in ProviderErrors :
       /\ clsLlm' = [clsLlm EXCEPT !.state = "rejected"]
       /\ IF raceUnsettled(clsPc)
          THEN /\ clsPc' = "done"
               /\ clsResult' = Fulfilled(failureResult(clsEmail, error, <<>>))
          ELSE UNCHANGED <<clsPc, clsResult>>
  /\ UNCHANGED <<clsEmail, clsOpts, clsTimer, clsHeld, clsWorlds, gateVars,
                 parseVars, bhVars, auxVars>>

\* classifyExtract.ts:148: the timer fires and rejects its promise
TimeoutFire ==
  /\ clsTimer = "armed"
  /\ clsTimer' = "fired"
  /\ IF raceUnsettled(clsPc)
     THEN /\ clsPc' = "done"
          /\ clsResult' =
               Fulfilled(failureResult(clsEmail, ErrorOf(<<"LLM timeout">>), <<>>))
     ELSE UNCHANGED <<clsPc, clsResult>>
  /\ UNCHANGED <<clsEmail, clsOpts, clsLlm, clsHeld, clsWorlds, gateVars,
                 parseVars, bhVars, auxVars>>

\* classifyExtract.ts:179-253: all item normalizations have settled
\* what the service does for the items of a response
ItemWorlds(items) ==
  { w \in [1..Len(items) -> Worlds] :
      \A i \in 1..Len(items) : w[i] \in WorldsFor(items[i].slots) }

\* The first normalization that asks isWithinBusinessHours loads the table
\* of opening hours when the module is not yet initialized
Normalize ==
  /\ clsPc = "normalizing"
  /\ \E worlds \in ItemWorlds(clsHeld.step.parsed.items), db \in DbSettings :
       /\ clsResult' =
            Fulfilled(successResult(clsEmail, clsHeld.llmResult, clsHeld.step,
                        normalizeItems(clsHeld.step.parsed, clsOpts, worlds,
                                       loadedHours(bhHours, bhInitialized, db),
                                       bhHolidays)))
       /\ clsWorlds' = worlds
       /\ IF \E i \in 1..Len(clsHeld.step.parsed.items) :
               consultsBusinessHours(clsHeld.step.parsed.items[i].slots, worlds[i])
          THEN /\ bhHours' = loadedHours(bhHours, bhInitialized, db)
               /\ bhInitialized' = TRUE
          ELSE UNCHANGED <<bhHours, bhInitialized>>
  /\ clsPc' = "done"
  /\ UNCHANGED <<clsEmail, clsOpts, clsLlm, clsTimer, clsHeld, gateVars,
                 parseVars, bhHolidays, bhQuery, bhVerdict, auxVars>>

ClassifyNext ==
  ClassifyStart \/ LLMResolve \/ LLMReject \/ TimeoutFire \/ Normalize

ClassifySpec == ClassifyInit /\ [][ClassifyNext]_vars

\* the event loop runs the callback of a timer that is due; the model caller
\* may never answer
FairClassifySpec == ClassifySpec /\ WF_vars(TimeoutFire)

----------------------------------------------------------------------------
(* Batch specification: one call of classifyEmailBatch, the classifyEmail  *)
(* calls it starts, their model calls and their timers                     *)

\* classifyExtract.ts:307
BATCH_SIZE == 3

\* one classifyEmail call of a batch: where it stands, its model call, its
\* timer, what it holds while normalizing, and the result once it returned
NotStarted ==
  [ pc |-> "idle", llm |-> "idle", timer |-> "unset", held |-> NoHeld,
    result |-> NotCalled ]

\* classifyExtract.ts:136-150: the call up to its first await; thrown is
\* what the model caller throws at once, NotCalled when it returns a promise
startedCall(email, thrown) ==
  IF thrown = NotCalled
  THEN [ pc |-> "awaitLLM", llm |-> "pending", timer |-> "armed",
         held |-> NoHeld, result |-> NotCalled ]
  ELSE [ pc |-> "done", llm |-> "threw", timer |-> "unset", held |-> NoHeld,
         result |-> failureResult(email, thrown, <<>>) ]

\* classifyExtract.ts:152-177, for a call of a batch
resumedCall(call, email, opts, llmResult, step) ==
  IF ~step.ok
  THEN [ call EXCEPT !.pc = "done",
                     !.result = failureResult(email, step.error, <<>>) ]
  ELSE IF opts.normalizeSlots
  THEN [ call EXCEPT !.pc = "normalizing",
                     !.held = [ok |-> TRUE, llmResult |-> llmResult, step |-> step] ]
  ELSE [ call EXCEPT !.pc = "done",
                     !.result = successResult(email, llmResult, step, step.parsed) ]

\* the model call of a call fulfils
answeredCall(call, email, opts, response, onOther) ==
  IF raceUnsettled(call.pc)
  THEN resumedCall([call EXCEPT !.llm = "resolved"], email, opts,
                   [response |-> response, model |-> opts.llmModel],
                   parseStep(response, opts, onOther))
  ELSE [call EXCEPT !.llm = "resolved"]

\* the model call of a call rejects
rejectedCall(call, email, error) ==
  IF raceUnsettled(call.pc)
  THEN [ call EXCEPT !.llm = "rejected", !.pc = "done",
                     !.result = failureResult(email, error, <<>>) ]
  ELSE [call EXCEPT !.llm = "rejected"]

\* the timer of a call fires
timedOutCall(call, email) ==
  IF raceUnsettled(call.pc)
  THEN [ call EXCEPT !.timer = "fired", !.pc = "done",
                     !.result = failureResult(email, ErrorOf(<<"LLM timeout">>), <<>>) ]
  ELSE [call EXCEPT !.timer = "fired"]

\* classifyExtract.ts:179-253, for a call of a batch
normalizedCall(call, email, opts, worlds, hours, holidayList) ==
  [ call EXCEPT !.pc = "done",
                !.result = successResult(email, call.held.llmResult, call.held.step,
                             normalizeItems(call.held.step.parsed, opts, worlds,
                                            hours, holidayList)) ]

\* emails.slice(i, i + BATCH_SIZE), as positions of the list
sliceOf(emails, i) == (i + 1)..Min(i + BATCH_SIZE, Len(emails))

\* mutant: the results of a slice are collected last message first
batchResultsReversed(calls, from, to) ==
  [ k \in 1..(to - from + 1) |-> calls[to - k + 1].result ]

\* classifyExtract.ts:317: Promise.all gives the results in the order of
\* the promises, whatever the order in which they settled
batchResults(calls, from, to) ==
  [ k \in 1..(to - from + 1) |-> calls[from + k - 1].result ]

\* the messages of a batch: pairwise different texts
BatchEmail(i) == <<"M","a","i","l"," ", Digits[i + 1]>>

BatchEmails == { [i \in 1..n |-> BatchEmail(i)] : n \in 0..MaxBatchEmails }

\* what the model caller answers, throws or rejects with in a batch
BatchAnswers == { Plain("edgeConfidence") }

BatchErrors == { ErrorOf(<<"ECONNREFUSED">>) }

\* the options of the batch
BatchOptions == MergeOptions([timeout |-> 5000])

BatchInit ==
  /\ GateIdle
  /\ ParseIdle
  /\ ClassifyIdle
  /\ BhIdle
  /\ CacheIdle
  /\ PlanIdle
  /\ ReserveIdle
  /\ batEmails \in BatchEmails
  /\ batStart = 0
  /\ batCalls = [i \in 1..Len(batEmails) |-> NotStarted]
  /\ batResults = <<>>
  /\ batPc = "idle"

\* classifyExtract.ts:311-315: the calls of the slice at i are started, one
\* after the other in the order of the list, each up to its first await
startSlice(calls, emails, i, thrown) ==
  [ k \in DOMAIN calls |->
      IF k \in sliceOf(emails, i) THEN startedCall(emails[k], thrown[k])
      ELSE calls[k] ]

\* what the model caller does when the calls of a slice invoke it
SliceThrows(emails, i) == [sliceOf(emails, i) -> {NotCalled} \cup BatchErrors]

\* classifyExtract.ts:299-317: the batch runs to its first await, or to its
\* end when the list is empty
BatchCall ==
  /\ batPc = "idle"
  /\ IF Len(batEmails) = 0
     THEN /\ batPc' = "done"
          /\ UNCHANGED batCalls
     ELSE /\ batPc' = "awaitBatch"
          /\ \E thrown \in SliceThrows(batEmails, 0) :
               batCalls' = startSlice(batCalls, batEmails, 0, thrown)
  /\ UNCHANGED <<batEmails, batStart, batResults, gateVars, parseVars, clsVars,
                 bhVars, tcVars, planVars, resVars>>

BatLLMResolve ==
  /\ \E i \in DOMAIN batCalls, response \in BatchAnswers,
        onOther \in RepairChoices :
       /\ batCalls[i].llm = "pending"
       /\ batCalls' = [batCalls EXCEPT ![i] =
            answeredCall(batCalls[i], batEmails[i], BatchOptions, response, onOther)]
  /\ UNCHANGED <<batEmails, batStart, batResults, batPc, gateVars, parseVars,
                 clsVars, bhVars, tcVars, planVars, resVars>>

BatLLMReject ==
  /\ \E i \in DOMAIN batCalls, error \in BatchErrors :
       /\ batCalls[i].llm = "pending"
       /\ batCalls' = [batCalls EXCEPT ![i] =
            rejectedCall(batCalls[i], batEmails[i], error)]
  /\ UNCHANGED <<batEmails, batStart, batResults, batPc, gateVars, parseVars,
                 clsVars, bhVars, tcVars, planVars, resVars>>

BatTimeoutFire ==
  /\ \E i \in DOMAIN batCalls :
       /\ batCalls[i].timer = "armed"
       /\ batCalls' = [batCalls EXCEPT ![i] = timedOutCall(batCalls[i], batEmails[i])]
  /\ UNCHANGED <<batEmails, batStart, batResults, batPc, gateVars, parseVars,
                 clsVars, bhVars, tcVars, planVars, resVars>>

\* the answers of a batch carry no date or time text, so no normalization
\* sends a request or asks for the opening hours
BatNormalize ==
  /\ \E i \in DOMAIN batCalls :
       /\ batCalls[i].pc = "normalizing"
       /\ \E worlds \in ItemWorlds(batCalls[i].held.step.parsed.items) :
            batCalls' = [batCalls EXCEPT ![i] =
              normalizedCall(batCalls[i], batEmails[i], BatchOptions, worlds,
                             bhHours, bhHolidays)]
  /\ UNCHANGED <<batEmails, batStart, batResults, batPc, gateVars, parseVars,
                 clsVars, bhVars, tcVars, planVars, resVars>>

\* classifyExtract.ts:317-323: every call of the slice has returned; the
\* results are appended and the loop starts the next slice or returns
BatchAdvance ==
  /\ batPc = "awaitBatch"
  /\ \A k \in sliceOf(batEmails, batStart) : batCalls[k].pc = "done"
  /\ batResults' = batResults \o
       batchResults(batCalls, batStart + 1,
                    Min(batStart + BATCH_SIZE, Len(batEmails)))
  /\ batStart' = batStart + BATCH_SIZE
  /\ IF batStart + BATCH_SIZE < Len(batEmails)
     THEN /\ UNCHANGED batPc
          /\ \E thrown \in SliceThrows(batEmails, batStart + BATCH_SIZE) :
               batCalls' = startSlice(batCalls, batEmails,
                                      batStart + BATCH_SIZE, thrown)
     ELSE /\ batPc' = "done"
          /\ UNCHANGED batCalls
  /\ UNCHANGED <<batEmails, gateVars, parseVars, clsVars, bhVars, tcVars,
                 planVars, resVars>>

BatchNext ==
  \/ BatchCall \/ BatLLMResolve \/ BatLLMReject \/ BatTimeoutFire
  \/ BatNormalize \/ BatchAdvance

BatchSpec == BatchInit /\ [][BatchNext]_vars

----------------------------------------------------------------------------
(* Business-hours specification: a process configures its opening hours    *)
(* and asks isWithinBusinessHours                                          *)

\* the dates asked about: Monday 2, Tuesday 3, Wednesday 4, Friday 6 and
\* Saturday 7 November 2026, and Christmas Day 2025 of the default holiday
\* list (a Thursday)
QueryDates ==
  { <<"2","0","2","6","-","1","1","-","0","2">>, <<"2","0","2","6","-","1","1","-","0","3">>, <<"2","0","2","6","-","1","1","-","0","4">>,
    <<"2","0","2","6","-","1","1","-","0","6">>, <<"2","0","2","6","-","1","1","-","0","7">>, <<"2","0","2","5","-","1","2","-","2","5">> }

\* minutes of the day around the ends of the default intervals
QueryMinutes == {479, 480, 540, 720, 721, 840, 900}

QueryInstants ==
  { Instant(date, m) : date \in QueryDates, m \in QueryMinutes }
    \cup {InvalidInstant}

NotGiven == [given |-> FALSE]

Given(value) == [given |-> TRUE, value |-> value]

\* the tables and lists a caller hands to initBusinessHours
InitHours ==
  { NotGiven,
    Given([ mon |-> << <<<<"0","9",":","0","0">>, <<"1","7",":","0","0">>>> >>,
            sat |-> << <<<<"0","9",":","0","0">>, <<"1","2",":","0","0">>>> >> ]) }

InitHolidays ==
  { NotGiven,
    Given(<< [date |-> <<"2","0","2","6","-","1","1","-","0","4">>, name |-> "Betriebsausflug", type |-> "practice"] >>) }

\* the intervals a caller sets for a day: none, an afternoon, and one whose
\* start is no clock text
DayHours ==
  { <<>>,
    << <<<<"1","4",":","0","0">>, <<"1","8",":","0","0">>>> >>,
    << << <<"8">>, <<"1","2",":","0","0">> >> >> }

AddedHolidays ==
  { [date |-> <<"2","0","2","6","-","1","1","-","0","3">>, name |-> "Praxisurlaub", type |-> "practice"] }

\* what loadFromConfig can find; it is only called before initialization
DbFound(initialized) == IF initialized THEN {NoRows} ELSE DbSettings

BhInit ==
  /\ GateIdle
  /\ ParseIdle
  /\ ClassifyIdle
  /\ AuxIdle
  /\ BhIdle

\* businessHours.ts:62-76; bhQuery and bhVerdict hold the last call under
\* the configuration in force and are cleared when it changes
InitBusinessHours ==
  /\ \E hours \in InitHours, holidayList \in InitHolidays :
       /\ bhHours' = IF hours.given THEN hours.value ELSE bhHours
       /\ bhHolidays' = IF holidayList.given THEN holidayList.value ELSE bhHolidays
  /\ bhInitialized' = TRUE
  /\ bhQuery' = InvalidInstant
  /\ bhVerdict' = "none"
  /\ UNCHANGED <<gateVars, parseVars, clsVars, auxVars>>

\* businessHours.ts:359-365
SetBusinessHoursForDay ==
  /\ \E dayKey \in {"wed"}, hours \in DayHours, db \in DbFound(bhInitialized) :
       bhHours' = setDay(loadedHours(bhHours, bhInitialized, db), dayKey, hours)
  /\ bhInitialized' = TRUE
  /\ bhQuery' = InvalidInstant
  /\ bhVerdict' = "none"
  /\ UNCHANGED <<bhHolidays, gateVars, parseVars, clsVars, auxVars>>

\* businessHours.ts:371-387
AddHoliday ==
  /\ \E holiday \in AddedHolidays, db \in DbFound(bhInitialized) :
       /\ bhHolidays' = addHolidayTo(bhHolidays, holiday)
       /\ bhHours' = loadedHours(bhHours, bhInitialized, db)
  /\ bhInitialized' = TRUE
  /\ bhQuery' = InvalidInstant
  /\ bhVerdict' = "none"
  /\ UNCHANGED <<gateVars, parseVars, clsVars, auxVars>>

\* businessHours.ts:155-208
IsWithinBusinessHours ==
  /\ \E t \in QueryInstants, db \in DbFound(bhInitialized) :
       /\ bhHours' = loadedHours(bhHours, bhInitialized, db)
       /\ bhQuery' = t
       /\ bhVerdict' =
            boolOf(isWithinBusinessHours(t, loadedHours(bhHours, bhInitialized, db),
                                         bhHolidays))
  /\ bhInitialized' = TRUE
  /\ UNCHANGED <<bhHolidays, gateVars, parseVars, clsVars, auxVars>>

BhNext ==
  InitBusinessHours \/ SetBusinessHoursForDay \/ AddHoliday \/ IsWithinBusinessHours

BhSpec == BhInit /\ [][BhNext]_vars

----------------------------------------------------------------------------
(* Time-cache specification: concurrent parseTimesDe calls share timeCache *)

\* metrics.ts:62, in milliseconds
CACHE_TTL == 60000

\* the values Date.now() takes, in milliseconds
ClockInstants == {0, 1, 60000}

\* cache keys: text, locale, time zone and reference instant of a request
CacheKeys == {"morgen", "heute", "10:00"}

\* the callers whose parseTimesDe calls overlap
TaskIds == {1, 2}

IdleTask == [pc |-> "idle"]

Fetching(key, useCache) == [pc |-> "fetching", key |-> key, useCache |-> useCache]

\* what the service answers to a request, marked with the time of the answer
Answer(key, at) == << [text |-> key, answeredAt |-> at] >>

NotFound == [present |-> FALSE]

Found(entry) == [present |-> TRUE, entry |-> entry]

\* Map.has
cacheHas(cache, key) == \E i \in DOMAIN cache : cache[i].key = key

\* Map.get of a key the map has
cacheGet(cache, key) == cache[CHOOSE i \in DOMAIN cache : cache[i].key = key]

\* Map.delete
cacheDelete(cache, key) == SelectSeq(cache, LAMBDA e : e.key # key)

\* Map.set: a key the map has keeps its place, a new key goes last
cacheSet(cache, key, data, timestamp) ==
  IF cacheHas(cache, key)
  THEN [ i \in DOMAIN cache |->
           IF cache[i].key = key
           THEN [key |-> key, data |-> data, timestamp |-> timestamp]
           ELSE cache[i] ]
  ELSE Append(cache, [key |-> key, data |-> data, timestamp |-> timestamp])

isFreshInclusive(now, cached) == now - cached.timestamp <= CACHE_TTL

\* metrics.ts:83
isFresh(now, cached) == now - cached.timestamp < CACHE_TTL

\* metrics.ts:126-129: beyond the limit the first key of the map is deleted
limitCache(cache) ==
  IF Len(cache) > MaxCacheSize THEN cacheDelete(cache, cache[1].key) ELSE cache

evictedBy(cache) ==
  IF Len(cache) > MaxCacheSize THEN Found(cache[1]) ELSE NotFound

LastStep(key, useCache, event, at, found, result, evicted) ==
  [ key |-> key, useCache |-> useCache, event |-> event, at |-> at,
    found |-> found, result |-> result, evicted |-> evicted ]

CacheInit ==
  /\ GateIdle
  /\ ParseIdle
  /\ ClassifyIdle
  /\ BhIdle
  /\ BatchIdle
  /\ PlanIdle
  /\ ReserveIdle
  /\ tcCache = <<>>
  /\ tcNow = 0
  /\ tcTasks = [task \in TaskIds |-> IdleTask]
  /\ tcLast = NotCalled
  /\ tcStoredAt = [key \in CacheKeys |-> -1]

\* metrics.ts:70-91: a call up to its first await: a fresh entry is
\* returned, an entry past its time is deleted and the request is sent
ParseTimesDeCall ==
  /\ \E task \in TaskIds, key \in CacheKeys, useCache \in BOOLEAN :
       /\ tcTasks[task].pc = "idle"
       /\ IF useCache /\ cacheHas(tcCache, key)
          THEN IF isFresh(tcNow, cacheGet(tcCache, key))
               THEN /\ tcLast' = LastStep(key, useCache, "hit", tcNow,
                                          Found(cacheGet(tcCache, key)),
                                          cacheGet(tcCache, key).data, NotFound)
                    /\ UNCHANGED <<tcCache, tcTasks>>
               ELSE /\ tcCache' = cacheDelete(tcCache, key)
                    /\ tcTasks' = [tcTasks EXCEPT ![task] = Fetching(key, useCache)]
                    /\ tcLast' = LastStep(key, useCache, "request", tcNow,
                                          Found(cacheGet(tcCache, key)),
                                          <<>>, NotFound)
          ELSE /\ tcTasks' = [tcTasks EXCEPT ![task] = Fetching(key, useCache)]
               /\ tcLast' = LastStep(key, useCache, "request", tcNow,
                                     NotFound, <<>>, NotFound)
               /\ UNCHANGED tcCache
  /\ UNCHANGED <<tcNow, tcStoredAt, gateVars, parseVars, clsVars, bhVars,
                 batVars, planVars, resVars>>

\* metrics.ts:91-131: the service answers; the result is stored, the cache
\* is cut to its limit and the result returned
FetchResolve ==
  /\ \E task \in TaskIds :
       /\ tcTasks[task].pc = "fetching"
       /\ IF tcTasks[task].useCache
          THEN /\ tcCache' = limitCache(cacheSet(tcCache, tcTasks[task].key,
                                                 Answer(tcTasks[task].key, tcNow), tcNow))
               /\ tcStoredAt' = [tcStoredAt EXCEPT ![tcTasks[task].key] = tcNow]
               /\ tcLast' = LastStep(tcTasks[task].key, TRUE, "stored", tcNow, NotFound,
                                     Answer(tcTasks[task].key, tcNow),
                                     evictedBy(cacheSet(tcCache, tcTasks[task].key,
                                               Answer(tcTasks[task].key, tcNow), tcNow)))
          ELSE /\ tcLast' = LastStep(tcTasks[task].key, FALSE, "returned", tcNow, NotFound,
                                     Answer(tcTasks[task].key, tcNow), NotFound)
               /\ UNCHANGED <<tcCache, tcStoredAt>>
       /\ tcTasks' = [tcTasks EXCEPT ![task] = IdleTask]
  /\ UNCHANGED <<tcNow, gateVars, parseVars, clsVars, bhVars, batVars, planVars, resVars>>

\* metrics.ts:106-108, 133-140: a network error, a status that is not OK or
\* the abort after the time limit; the call returns no hit
FetchReject ==
  /\ \E task \in TaskIds :
       /\ tcTasks[task].pc = "fetching"
       /\ tcLast' = LastStep(tcTasks[task].key, tcTasks[task].useCache, "failed", tcNow,
                             NotFound, <<>>, NotFound)
       /\ tcTasks' = [tcTasks EXCEPT ![task] = IdleTask]
  /\ UNCHANGED <<tcCache, tcNow, tcStoredAt, gateVars, parseVars, clsVars, bhVars,
                 batVars, planVars, resVars>>

\* metrics.ts:313-315; tcLast and tcStoredAt describe the time since
ClearCache ==
  /\ tcCache # <<>>
  /\ tcCache' = <<>>
  /\ tcLast' = NotCalled
  /\ tcStoredAt' = [key \in CacheKeys |-> -1]
  /\ UNCHANGED <<tcNow, tcTasks, gateVars, parseVars, clsVars, bhVars, batVars, planVars, resVars>>

\* time passes between two steps
ClockAdvance ==
  /\ \E later \in ClockInstants :
       /\ later > tcNow
       /\ tcNow' = later
  /\ UNCHANGED <<tcCache, tcTasks, tcLast, tcStoredAt, gateVars, parseVars, clsVars,
                 bhVars, batVars, planVars, resVars>>

CacheNext ==
  ParseTimesDeCall \/ FetchResolve \/ FetchReject \/ ClearCache \/ ClockAdvance

CacheSpec == CacheInit /\ [][CacheNext]_vars

----------------------------------------------------------------------------
(* Plan specification: createProcessingPlan is called with an item list    *)

PlanLists == UNION { [1..n -> SampleItems] : n \in 0..MaxPlanItems }

PlanInit ==
  /\ GateIdle
  /\ ParseIdle
  /\ ClassifyIdle
  /\ BhIdle
  /\ CacheIdle
  /\ BatchIdle
  /\ ReserveIdle
  /\ CompatIdle
  /\ planItems \in PlanLists
  /\ planResult = NotCalled
  /\ planAnalysis = NotCalled

\* multi.ts:106-123
CreateProcessingPlan ==
  /\ planResult = NotCalled
  /\ planResult' = createProcessingPlan(planItems)
  /\ UNCHANGED <<planItems, planAnalysis, cmpIntents, cmpResult, gateVars, parseVars,
                 clsVars, bhVars, tcVars, batVars, resVars>>

\* multi.ts:249-306, called with the plan of createProcessingPlan
AnalyzeComplexity ==
  /\ planResult # NotCalled
  /\ planAnalysis = NotCalled
  /\ planAnalysis' = analyzeComplexity(planResult)
  /\ UNCHANGED <<planItems, planResult, cmpIntents, cmpResult, gateVars, parseVars,
                 clsVars, bhVars, tcVars, batVars, resVars>>

PlanNext == CreateProcessingPlan \/ AnalyzeComplexity

PlanSpec == PlanInit /\ [][PlanNext]_vars

----------------------------------------------------------------------------
(* Compatibility specification: areIntentsCompatible is called with a list *)
(* of intents                                                              *)

\* lists of pairwise different intent types
IntentCombos ==
  { c \in UNION { [1..n -> INTENT_TYPES] : n \in 0..MaxComboIntents } :
      \A i, j \in DOMAIN c : i # j => c[i] # c[j] }

CompatInit ==
  /\ GateIdle
  /\ ParseIdle
  /\ ClassifyIdle
  /\ BhIdle
  /\ CacheIdle
  /\ BatchIdle
  /\ ReserveIdle
  /\ planItems = <<>>
  /\ planResult = NotCalled
  /\ planAnalysis = NotCalled
  /\ cmpIntents \in IntentCombos
  /\ cmpResult = "none"

\* multi.ts:174-192
AreIntentsCompatible ==
  /\ cmpResult = "none"
  /\ cmpResult' = boolOf(areIntentsCompatible(cmpIntents))
  /\ UNCHANGED <<cmpIntents, planItems, planResult, planAnalysis, gateVars, parseVars,
                 clsVars, bhVars, tcVars, batVars, resVars>>

CompatNext == AreIntentsCompatible

CompatSpec == CompatInit /\ [][CompatNext]_vars

----------------------------------------------------------------------------
(* Reservation specification: callers that share calendar.db call reserve. *)
(* The connection is in WAL mode (db.ts:4): a transaction reads from the   *)
(* snapshot taken at its first SELECT, and a write from a snapshot that    *)
(* another connection's commit has outdated fails with SQLITE_BUSY.  A     *)
(* caller runs reserve synchronously, so its INSERT and COMMIT are one     *)
(* step; callers in different processes interleave between the reads and   *)
(* the INSERT.                                                             *)

\* env.ts:21-26  INSERT ... ON CONFLICT(name) DO NOTHING
ensureResource(resources, name) == resources \cup {name}

\* env.ts:36-39  cap?.max_bookings ?? 1
maxBookings(capacity, resource, slotISO) ==
  LET rows == { r \in capacity : r.resource = resource /\ r.slot = slotISO }
  IN  IF rows = {} THEN 1 ELSE (CHOOSE r \in rows : TRUE).max_bookings

RECURSIVE rowsStored(_, _)
rowsStored(reservations, rows) ==
  IF rows = {} THEN 0
  ELSE LET row == CHOOSE r \in rows : TRUE
       IN  reservations[row] + rowsStored(reservations, rows \ {row})

\* env.ts:41-43  SELECT COUNT(*) ... WHERE resource_id=? AND slot_ts=?
countReserved(reservations, resource, slotISO) ==
  rowsStored(reservations, { row \in ReserveRows : row[1] = resource /\ row[2] = slotISO })

capacityExceeded(count, max) == count > max

\* env.ts:45
capacityReached(count, max) == count >= max

\* schema: UNIQUE(resource_id, slot_ts, patient_hash) rejects the INSERT
uniqueViolation(reservations, row) == reservations[row] > 0

\* env.ts:35  the snapshot the transaction read from is no longer the last commit
snapshotLost(task) == task.stale

\* a commit of other outdates the snapshot of every open transaction
outdated(tasks, other) ==
  [t \in ReserveCallers |->
     IF t # other /\ tasks[t].pc = "insert" THEN [tasks[t] EXCEPT !.stale = TRUE]
     ELSE tasks[t]]

\* env.ts:46, 53, 56, 58  how a reserve call ends
Returned(ok, reason, changed) ==
  [outcome |-> "returned", ok |-> ok, reason |-> reason, changed |-> changed]
Thrown == [outcome |-> "thrown", ok |-> FALSE, reason |-> "SQLITE_BUSY", changed |-> FALSE]

\* the slot_capacity tables the runs start from: max_bookings has NOT NULL DEFAULT 1
CapacityTables ==
  { {},
    { [resource |-> "Labor", slot |-> "2026-11-03T09:00", max_bookings |-> 2] },
    { [resource |-> "Labor", slot |-> "2026-11-03T09:00", max_bookings |-> 2],
      [resource |-> "Labor", slot |-> "2026-11-03T09:30", max_bookings |-> 0] } }

ReserveInit ==
  /\ GateIdle
  /\ ParseIdle
  /\ ClassifyIdle
  /\ BhIdle
  /\ CacheIdle
  /\ BatchIdle
  /\ PlanIdle
  /\ resCapacity \in CapacityTables
  /\ resResources = { r.resource : r \in resCapacity }
  /\ resReservations = [row \in ReserveRows |-> 0]
  /\ resTasks = [t \in ReserveCallers |-> IdleCaller]
  /\ resLast = NothingReturned

\* env.ts:33-47  ensureResource, BEGIN, the two SELECTs and the capacity test
ReserveBegin(t, resource, slotISO, patientHash) ==
  /\ resTasks[t] = IdleCaller
  /\ resResources' = ensureResource(resResources, resource)
  /\ LET max == maxBookings(resCapacity, resource, slotISO)
         count == countReserved(resReservations, resource, slotISO)
         others == IF resResources' # resResources THEN outdated(resTasks, t)
                   ELSE resTasks
     IN  IF capacityReached(count, max)
         THEN /\ resLast' = Returned(FALSE, "capacity_reached", FALSE)
              /\ resTasks' = others
         ELSE /\ resTasks' = [others EXCEPT ![t] =
                     [pc |-> "insert", resource |-> resource, slot |-> slotISO,
                      patient |-> patientHash, stale |-> FALSE]]
              /\ UNCHANGED resLast
  /\ UNCHANGED <<resCapacity, resReservations, gateVars, parseVars, clsVars, bhVars,
                 tcVars, batVars, planVars>>

\* env.ts:49-59  the INSERT, its UNIQUE error, and COMMIT
ReserveInsert(t) ==
  /\ resTasks[t].pc = "insert"
  /\ LET row == <<resTasks[t].resource, resTasks[t].slot, resTasks[t].patient>>
     IN  IF snapshotLost(resTasks[t])
         THEN /\ resLast' = Thrown
              /\ resTasks' = [resTasks EXCEPT ![t] = IdleCaller]
              /\ UNCHANGED resReservations
         ELSE IF uniqueViolation(resReservations, row)
         THEN /\ resLast' = Returned(FALSE, "duplicate_patient_slot", FALSE)
              /\ resTasks' = [resTasks EXCEPT ![t] = IdleCaller]
              /\ UNCHANGED resReservations
         ELSE /\ resReservations' = [resReservations EXCEPT ![row] = @ + 1]
              /\ resLast' = Returned(TRUE, "", resReservations' # resReservations)
              /\ resTasks' = [outdated(resTasks, t) EXCEPT ![t] = IdleCaller]
  /\ UNCHANGED <<resResources, resCapacity, gateVars, parseVars, clsVars, bhVars,
                 tcVars, batVars, planVars>>

\* env.ts:58  the INSERT waits for another connection's lock until the busy
\* timeout ends and throws; the transaction is rolled back
ReserveBusy(t) ==
  /\ resTasks[t].pc = "insert"
  /\ \E other \in ReserveCallers \ {t} : resTasks[other].pc = "insert"
  /\ resLast' = Thrown
  /\ resTasks' = [resTasks EXCEPT ![t] = IdleCaller]
  /\ UNCHANGED <<resResources, resCapacity, resReservations, gateVars, parseVars,
                 clsVars, bhVars, tcVars, batVars, planVars>>

ReserveNext ==
  \/ \E t \in ReserveCallers, resource \in ReserveResources, slotISO \in ReserveSlots,
        patientHash \in ReservePatients : ReserveBegin(t, resource, slotISO, patientHash)
  \/ \E t \in ReserveCallers : ReserveInsert(t)
  \/ \E t \in ReserveCallers : ReserveBusy(t)

ReserveSpec == ReserveInit /\ [][ReserveNext]_vars

----------------------------------------------------------------------------
(* Properties of gate (GateSpec) *)

GateCalled == gateDecision # NotCalled

HasEmergencyItem(resp) ==
  \E i \in 1..Len(resp.items) :
    \/ resp.items[i].intent = "notfall"
    \/ resp.items[i].next_action = "notfall_protokoll"

\* some configured keyword occurs in the text, letter case ignored
TextHasKeyword(text, config) ==
  \E k \in 1..Len(config.emergencyKeywords) :
    LET kw == config.emergencyKeywords[k]
    IN  \E i \in 0..(Len(text) - Len(kw)) :
          \A j \in 1..Len(kw) :
            toLowerCaseChar(text[i + j]) = toLowerCaseChar(kw[j])

IsBlank(v) == v.isNull \/ \A i \in 1..Len(v.s) : v.s[i] \in {" ", "\t", "\n", "\r"}

RequiredOf(intent, config) ==
  IF intent \in DOMAIN config.requiredSlots
  THEN { config.requiredSlots[intent][i] :
           i \in 1..Len(config.requiredSlots[intent]) }
  ELSE {}

\* the required slot names that are null, empty or blank in at least one item
MissingSet(resp, config) ==
  { rs \in UNION { RequiredOf(resp.items[i].intent, config) :
                     i \in 1..Len(resp.items) } :
      \E i \in 1..Len(resp.items) :
        /\ rs \in RequiredOf(resp.items[i].intent, config)
        /\ (rs \notin DOMAIN resp.items[i].slots
              \/ IsBlank(resp.items[i].slots[rs])) }

SeqToSet(seq) == { seq[i] : i \in 1..Len(seq) }

DefaultThresholds(config) ==
  /\ config.autoProcessThreshold = 85000
  /\ config.confirmThreshold = 50000

\* C1: whenever at least one item has intent notfall or next_action
\* notfall_protokoll, gate returns EMERGENCY, whatever the other items, the
\* declared max_confidence, requires_human, the text and the configuration are.
C1_EmergencyItemForcesEmergency ==
  (GateCalled /\ HasEmergencyItem(gateResp))
    => gateDecision.action = "EMERGENCY"

\* an emergency item of confidence 0.1 beside a routine item of 0.99, with
\* requires_human set, under a changed configuration
C1_Witness ==
  /\ GateCalled
  /\ gateUsed # DEFAULT_CONFIG
  /\ gateResp.overall.requires_human
  /\ Len(gateResp.items) = 2
  /\ gateResp.items[1].confidence = 99000
  /\ ~(gateResp.items[1].intent = "notfall")
  /\ gateResp.items[2].intent = "notfall"
  /\ gateResp.items[2].confidence = 10000
  /\ gateDecision.action = "EMERGENCY"

\* C2: with no emergency item in the response, a text that contains a
\* configured emergency keyword (as a substring, letter case ignored) makes
\* gate return EMERGENCY with exactly one synthesized item: intent notfall,
\* confidence 0.9, next_action notfall_protokoll.
C2_KeywordSafetyNet ==
  (GateCalled /\ ~HasEmergencyItem(gateResp) /\ TextHasKeyword(gateText, gateUsed))
    => /\ gateDecision.action = "EMERGENCY"
       /\ Len(gateDecision.items) = 1
       /\ gateDecision.items[1].intent = "notfall"
       /\ gateDecision.items[1].confidence = 90000
       /\ gateDecision.items[1].next_action = "notfall_protokoll"

\* the keyword written in capitals, in a response that asks for a human
C2_Witness ==
  /\ GateCalled
  /\ ~HasEmergencyItem(gateResp)
  /\ gateResp.overall.requires_human
  /\ gateText = <<"E","r"," ","i","s","t"," ","B","E","W","U","S","S","T","L","O","S">>
  /\ gateDecision.action = "EMERGENCY"
  /\ gateDecision.items[1].confidence = 90000

\* C5: under the default thresholds, with no emergency item, no keyword in the
\* text, requires_human false and no required slot missing, the decision is
\* AUTO_PROCESS exactly for max_confidence >= 0.85, ASK_CONFIRM exactly for
\* 0.5 <= max_confidence < 0.85 and ESCALATE exactly for max_confidence < 0.5.
C5_ThresholdPartition ==
  ( /\ GateCalled
    /\ DefaultThresholds(gateUsed)
    /\ ~HasEmergencyItem(gateResp)
    /\ ~TextHasKeyword(gateText, gateUsed)
    /\ ~gateResp.overall.requires_human
    /\ MissingSet(gateResp, gateUsed) = {} )
    => LET c == gateResp.overall.max_confidence
       IN  /\ (gateDecision.action = "AUTO_PROCESS") <=> (c >= 85000)
           /\ (gateDecision.action = "ASK_CONFIRM") <=> (50000 =< c /\ c < 85000)
           /\ (gateDecision.action = "ESCALATE") <=> (c < 50000)

\* max_confidence exactly 0.85 with all required slots present: AUTO_PROCESS
C5_Witness ==
  /\ GateCalled
  /\ DefaultThresholds(gateUsed)
  /\ ~gateResp.overall.requires_human
  /\ gateResp.overall.max_confidence = 85000
  /\ gateResp.items[1].intent = "termin_anfragen"
  /\ MissingSet(gateResp, gateUsed) = {}
  /\ gateDecision.action = "AUTO_PROCESS"

\* C6: with no emergency (neither an emergency item nor a keyword in the
\* text), requires_human false and max_confidence >= autoProcessThreshold, the
\* decision is AUTO_PROCESS exactly when no required slot is missing, and
\* otherwise ASK_CONFIRM whose missingSlots are the required slot names that
\* are null, empty or blank in at least one item.
C6_MissingSlotDetection ==
  ( /\ GateCalled
    /\ ~HasEmergencyItem(gateResp)
    /\ ~TextHasKeyword(gateText, gateUsed)
    /\ ~gateResp.overall.requires_human
    /\ gateResp.overall.max_confidence >= gateUsed.autoProcessThreshold )
    => IF MissingSet(gateResp, gateUsed) = {}
       THEN gateDecision.action = "AUTO_PROCESS"
       ELSE /\ gateDecision.action = "ASK_CONFIRM"
            /\ "missingSlots" \in DOMAIN gateDecision
            /\ SeqToSet(gateDecision.missingSlots) = MissingSet(gateResp, gateUsed)

\* an appointment request with date = null and time = null at confidence 0.9
C6_Witness ==
  /\ GateCalled
  /\ gateUsed = DEFAULT_CONFIG
  /\ Len(gateResp.items) = 1
  /\ gateResp.items[1].intent = "termin_anfragen"
  /\ gateResp.items[1].confidence = 90000
  /\ gateResp.items[1].slots.datum = Null
  /\ gateResp.items[1].slots.zeit = Null
  /\ gateDecision.action = "ASK_CONFIRM"
  /\ SeqToSet(gateDecision.missingSlots) = {"datum", "zeit"}

\* C7: with no emergency item and no keyword in the text, requires_human = true
\* makes gate return ESCALATE carrying all items, for every max_confidence.
C7_RequiresHumanEscalates ==
  ( /\ GateCalled
    /\ ~HasEmergencyItem(gateResp)
    /\ ~TextHasKeyword(gateText, gateUsed)
    /\ gateResp.overall.requires_human )
    => /\ gateDecision.action = "ESCALATE"
       /\ gateDecision.items = gateResp.items

\* requires_human with max_confidence above the threshold and nothing missing
C7_Witness ==
  /\ GateCalled
  /\ gateResp.overall.requires_human
  /\ gateResp.overall.max_confidence >= gateUsed.autoProcessThreshold
  /\ MissingSet(gateResp, gateUsed) = {}
  /\ Len(gateResp.items) = 2
  /\ gateDecision.action = "ESCALATE"

----------------------------------------------------------------------------
(* Properties of parseIntentJSON (ParseSpec) *)

ParseCalled == parseResult # NotCalled

InUnitInterval(n) == 0 =< n /\ n =< 100000

\* the object bodies the raw text carries
BodiesIn(raw) == { raw[i] : i \in { k \in 1..Len(raw) : raw[k] \in DOMAIN DocBodies } }

IsNumberOutside(j) == j.t = "num" /\ ~InUnitInterval(j.v)

\* an answer with no item, with a confidence below 0 or above 1, or whose
\* top_intent no item carries
ViolatesResponseInvariant(body) ==
  LET doc == DocBodies[body]
  IN  /\ {"items", "overall"} \subseteq DOMAIN doc
      /\ \/ doc.items.v = <<>>
         \/ \E i \in 1..Len(doc.items.v) :
              IsNumberOutside(doc.items.v[i].v.confidence)
         \/ IsNumberOutside(doc.overall.v.max_confidence)
         \/ \A i \in 1..Len(doc.items.v) :
              doc.items.v[i].v.intent # doc.overall.v.top_intent

\* C8: every response parseIntentJSON returns has at least one item, every
\* item confidence and max_confidence within [0, 1] and a top_intent that one
\* of its items carries; an answer that violates one of these is rejected with
\* an error.
C8_ReturnedResponseInvariant ==
  ParseCalled =>
    /\ parseResult.ok =>
         LET r == parseResult.value
         IN  /\ Len(r.items) >= 1
             /\ \A i \in 1..Len(r.items) : InUnitInterval(r.items[i].confidence)
             /\ InUnitInterval(r.overall.max_confidence)
             /\ \E i \in 1..Len(r.items) : r.items[i].intent = r.overall.top_intent
    /\ (\E b \in BodiesIn(parseRaw) : ViolatesResponseInvariant(b))
         => ~parseResult.ok

\* a fenced answer whose confidences sit on both ends of the range is returned
C8_Witness ==
  /\ ParseCalled
  /\ parseRaw = <<"FENCE", "json", "\n", "{", "edgeConfidence", "}", "\n", "FENCE">>
  /\ parseResult.ok
  /\ parseResult.value.items[1].confidence = 0
  /\ parseResult.value.overall.max_confidence = 100000

\* C9: for every input text parseIntentJSON either returns a validated
\* response or throws the one classified error, an Error whose message starts
\* with "Ungueltiges Intent-JSON"; no other error escapes.
C9_NeverCrash ==
  ParseCalled =>
    IF parseResult.ok
    THEN /\ \A i \in 1..Len(parseResult.value.items) :
              /\ parseResult.value.items[i].intent \in INTENT_TYPES
              /\ parseResult.value.items[i].next_action \in NEXT_ACTIONS
         /\ parseResult.value.overall.top_intent \in INTENT_TYPES
    ELSE /\ parseResult.error.name = "Error"
         /\ Head(parseResult.error.message) = "Ungueltiges Intent-JSON: "

\* prose without any JSON: the repair gives up, JSON.parse throws a
\* SyntaxError, and the caller sees the classified error
C9_Witness ==
  /\ ParseCalled
  /\ parseRaw = <<"Hier">>
  /\ ~parseResult.ok
  /\ parseResult.error.message =
       <<"Ungueltiges Intent-JSON: ", "Unexpected token in JSON">>

----------------------------------------------------------------------------
(* Properties of classifyEmail (ClassifySpec, FairClassifySpec) *)

Settled == clsResult # NotCalled

Dispositions == {"AUTO_PROCESS", "ASK_CONFIRM", "ESCALATE", "EMERGENCY"}

\* the result of the failure path with the given error text
FailedWith(message) ==
  /\ Settled
  /\ clsResult.status = "fulfilled"
  /\ ~clsResult.value.success
  /\ clsResult.value.error = Str(message)

\* C3: classifyEmail never rejects: for every message, option set and
\* behaviour of the model caller it resolves with a result whose decision is
\* one of the four dispositions, and whenever success is false the result has
\* a non-empty error, the decision ESCALATE with confidence 0 and the
\* complexity critical with score 1.0.
C3_NeverRejectsWellFormed ==
  Settled =>
    /\ clsResult.status = "fulfilled"
    /\ clsResult.value.decision.action \in Dispositions
    /\ ~clsResult.value.success =>
         /\ truthy(clsResult.value.error)
         /\ clsResult.value.decision.action = "ESCALATE"
         /\ clsResult.value.decision.confidence = 0
         /\ clsResult.value.complexity.level = "critical"
         /\ clsResult.value.complexity.score = 100000

\* C4: if the model caller has not answered when the timer fires, the call
\* resolves with the failure result of the timeout, and while the model
\* caller stays silent that is bound to happen; the model caller is invoked
\* exactly once per call; and no later step, the late answer of the abandoned
\* model call included, changes a result once it is returned.
C4_ModelTimeout ==
  /\ [][ (clsLlm.state = "pending" /\ clsTimer = "armed" /\ clsTimer' = "fired")
          => (FailedWith(<<"LLM timeout">>))' ]_vars
  /\ ((clsPc = "awaitLLM") ~> (clsLlm.state # "pending" \/ FailedWith(<<"LLM timeout">>)))
  /\ [](clsPc # "idle" => clsLlm.calls = 1)
  /\ [][ Settled => clsResult' = clsResult ]_vars

\* the timer fired first, the call returned the timeout failure, and the
\* abandoned model call answered afterwards
C4_Witness ==
  /\ clsTimer = "fired"
  /\ FailedWith(<<"LLM timeout">>)
  /\ clsLlm.state = "resolved"
  /\ clsLlm.response = Plain("valid")
  /\ clsLlm.calls = 1

\* schema-valid answers whose top_intent no item carries
TopIntentAbsentAnswers ==
  { Plain("topAbsent"), Fenced("topAbsent"), InProse("topAbsent"),
    Padded("topAbsent") }

\* C10: an answer that is schema-valid but whose top_intent no item carries
\* is always fatal for classifyEmail: the call returns the failure result
\* (success false, decision ESCALATE, complexity critical), never a fallback
\* response reported as success.
C10_TopIntentAbsentFatal ==
  (Settled /\ clsLlm.response \in TopIntentAbsentAnswers) =>
    /\ ~clsResult.value.success
    /\ clsResult.value.decision.action = "ESCALATE"
    /\ clsResult.value.complexity.level = "critical"

\* the model caller answered before the timer decided the race
AnsweredInTime ==
  /\ Settled
  /\ clsLlm.state = "resolved"
  /\ ~FailedWith(<<"LLM timeout">>)

\* parseIntentJSON throws on the text, whatever the repair library does
Unparseable(raw) == \A onOther \in RepairChoices : ~parseIntentJSON(raw, onOther).ok

\* the fallback response of createEmptyResponse, by its content
IsFallbackResponse(resp) ==
  /\ Len(resp.items) = 1
  /\ resp.items[1].intent = "allgemeine_info"
  /\ resp.items[1].confidence = 10000
  /\ resp.items[1].next_action = "eskalieren"
  /\ resp.overall.requires_human

\* C11: when the model answered but its text cannot be parsed and
\* enableFallback is true, classifyEmail returns success = true with parsed
\* equal to the fallback response (one allgemeine_info item, confidence 0.1,
\* next_action eskalieren, requires_human true), parsingError set and a
\* warning recorded; the decision is ESCALATE, or EMERGENCY when the raw
\* message contains an emergency keyword, never AUTO_PROCESS or ASK_CONFIRM.
C11_FallbackSubstitution ==
  (AnsweredInTime /\ Unparseable(clsLlm.response) /\ clsOpts.enableFallback) =>
    /\ clsResult.value.success
    /\ \E onOther \in RepairChoices :
         LET message == messageOf(parseIntentJSON(clsLlm.response, onOther).error)
         IN  /\ clsResult.value.parsed =
                  createEmptyResponse(<<"Parsing-Fehler: ">> \o message)
             /\ clsResult.value.parsingError = Str(message)
    /\ IsFallbackResponse(clsResult.value.parsed)
    /\ truthy(clsResult.value.parsingError)
    /\ \E i \in 1..Len(clsResult.value.warnings) :
         clsResult.value.warnings[i] =
           <<"JSON-Parsing fehlgeschlagen, verwende Fallback">>
    /\ clsResult.value.decision.action =
         IF TextHasKeyword(clsEmail, DEFAULT_CONFIG) THEN "EMERGENCY" ELSE "ESCALATE"

\* an unparseable answer to a message with an emergency keyword, slot
\* normalization switched on, is reported as success with the fallback
\* response and the decision EMERGENCY
C11_Witness ==
  /\ AnsweredInTime
  /\ Unparseable(clsLlm.response)
  /\ clsOpts.enableFallback
  /\ clsOpts.normalizeSlots
  /\ TextHasKeyword(clsEmail, DEFAULT_CONFIG)
  /\ clsResult.value.success
  /\ IsFallbackResponse(clsResult.value.parsed)
  /\ clsResult.value.decision.action = "EMERGENCY"

\* the requests of a world that the service failed
Failed(outcome) == outcome \in {ServiceError, ServiceTimeout}

\* every request sent for the item failed, and one was sent
NormalizationFailed(world) ==
  /\ Failed(world.date) \/ Failed(world.time)
  /\ Failed(world.date) \/ world.date = NoRequest
  /\ Failed(world.time) \/ world.time = NoRequest

\* the call returned a success result after normalizing the items
Normalized ==
  /\ Settled
  /\ clsResult.value.success
  /\ clsWorlds # <<>>

\* the warning of classifyExtract.ts:190
IsNormalizationWarning(warning) ==
  warning # <<>> /\ warning[1] = "Normalisierung fuer Item "

\* C12: when the normalization of one item's date/time fails (service error
\* or timeout) while other items normalize, that item's date and time slots
\* in normalized equal the parsed values, a warning is appended to the
\* result's warnings, every other item is normalized exactly as if the
\* failure had not happened, and no item is dropped.
C12_PerItemFailureIsolation ==
  Normalized =>
    \A i \in DOMAIN clsWorlds :
      ( /\ NormalizationFailed(clsWorlds[i])
        /\ \E j \in DOMAIN clsWorlds : ~NormalizationFailed(clsWorlds[j]) )
      => /\ clsResult.value.normalized.items[i].slots =
              clsResult.value.parsed.items[i].slots
         /\ \E k \in 1..Len(clsResult.value.warnings) :
              IsNormalizationWarning(clsResult.value.warnings[k])
         /\ Len(clsResult.value.normalized.items) =
              Len(clsResult.value.parsed.items)
         /\ \A j \in DOMAIN clsWorlds \ {i} :
              clsResult.value.normalized.items[j] =
                withDateTime(clsResult.value.parsed.items[j],
                  normalizeDateTimeSlots(
                    clsResult.value.parsed.items[j].slots.datum,
                    clsResult.value.parsed.items[j].slots.zeit,
                    clsOpts.slotDurationMinutes, clsWorlds[j],
                    bhHours, bhHolidays))

\* today + 1 day
Tomorrow == <<"2","0","2","6","-","1","1","-","0","3">>

\* C15: when the time-parsing service is unreachable (network error, non-OK
\* status or timeout), normalizing the date slot "morgen" still yields the
\* resolved date today + 1 day with isRelative = true.
C15_RelativeDateFallback ==
  Normalized =>
    \A i \in DOMAIN clsWorlds :
      ( /\ clsResult.value.parsed.items[i].slots.datum =
             Str(<<"m","o","r","g","e","n">>)
        /\ Failed(clsWorlds[i].date) )
      => /\ clsResult.value.normalized.items[i].slots.datum = Str(Tomorrow)
         /\ truthy(clsResult.value.normalized.items[i].meta.date_normalized)
         /\ clsResult.value.normalized.items[i].meta.is_relative_date

----------------------------------------------------------------------------
(* Properties of classifyEmailBatch (BatchSpec) *)

\* the model calls that were started and have not settled
InFlight == { i \in DOMAIN batCalls : batCalls[i].llm = "pending" }

\* C13: classifyEmailBatch preserves the input order: the returned list has
\* the length of the input and results[i].originalEmail = emails[i] for
\* every i, whatever the order in which the calls complete.
C13_BatchPreservesOrder ==
  batPc = "done" =>
    /\ Len(batResults) = Len(batEmails)
    /\ \A i \in 1..Len(batEmails) : batResults[i].originalEmail = batEmails[i]

\* a batch of two slices has returned: the first call ended by its timeout
\* with its model call still unanswered, the second call by an answer, the
\* third by a rejection
C13_Witness ==
  /\ batPc = "done"
  /\ Len(batEmails) = MaxBatchEmails
  /\ Len(batResults) = MaxBatchEmails
  /\ batResults[1].error = Str(<<"LLM timeout">>)
  /\ batCalls[1].llm = "pending"
  /\ batResults[2].success
  /\ batResults[3].error = Str(<<"ECONNREFUSED">>)
  /\ batResults[MaxBatchEmails].success

\* C14: classifyEmailBatch never has more than 3 model-caller invocations in
\* flight (started and not yet settled), for any number of messages and any
\* behaviour of the model, calls that outlast the timeout included; the
\* messages are started in input order.
C14_BoundedConcurrency ==
  /\ Cardinality(InFlight) <= BATCH_SIZE
  /\ \A i, j \in DOMAIN batCalls :
       (i < j /\ batCalls[j].pc # "idle") => batCalls[i].pc # "idle"

----------------------------------------------------------------------------
(* Properties of the business-hours check                                  *)

\* the weekdays of the dates asked about, from the calendar
QueryWeekday ==
  [ date \in QueryDates |->
      CASE date = <<"2","0","2","6","-","1","1","-","0","2">> -> "mon"
        [] date = <<"2","0","2","6","-","1","1","-","0","3">> -> "tue"
        [] date = <<"2","0","2","6","-","1","1","-","0","4">> -> "wed"
        [] date = <<"2","0","2","6","-","1","1","-","0","6">> -> "fri"
        [] date = <<"2","0","2","6","-","1","1","-","0","7">> -> "sat"
        [] date = <<"2","0","2","5","-","1","2","-","2","5">> -> "thu" ]

IsClock(text) ==
  /\ Len(text) = 5
  /\ text[3] = ":"
  /\ \A i \in {1, 2, 4, 5} : \E n \in 1..10 : Digits[n] = text[i]

DigitOf(c) == (CHOOSE n \in 1..10 : Digits[n] = c) - 1

ClockMinutes(text) ==
  (10 * DigitOf(text[1]) + DigitOf(text[2])) * 60
    + 10 * DigitOf(text[4]) + DigitOf(text[5])

OnHoliday(t, holidayList) ==
  \E i \in DOMAIN holidayList : holidayList[i].date = t.dateOnly

\* the date of t is no configured holiday and its clock time lies within
\* one interval, both ends included, configured for its weekday
OpenAt(t, hours, holidayList) ==
  /\ t.valid
  /\ ~OnHoliday(t, holidayList)
  /\ QueryWeekday[t.dateOnly] \in DOMAIN hours
  /\ \E k \in DOMAIN hours[QueryWeekday[t.dateOnly]] :
       /\ IsClock(hours[QueryWeekday[t.dateOnly]][k][1])
       /\ IsClock(hours[QueryWeekday[t.dateOnly]][k][2])
       /\ ClockMinutes(hours[QueryWeekday[t.dateOnly]][k][1]) <= t.minutes
       /\ t.minutes <= ClockMinutes(hours[QueryWeekday[t.dateOnly]][k][2])

DefaultConfiguration ==
  /\ bhHours = DEFAULT_BUSINESS_HOURS
  /\ bhHolidays = DEFAULT_HOLIDAYS

\* C16: isWithinBusinessHours(t) is true exactly when the date of t is no
\* configured holiday and the clock time of t lies within (start <= time <=
\* end) at least one interval configured for the weekday of t; with the
\* default configuration Wednesday 14:00 is closed and Tuesday 09:00 is open.
C16_WithinBusinessHoursExact ==
  bhVerdict # "none" =>
    /\ bhVerdict = boolOf(OpenAt(bhQuery, bhHours, bhHolidays))
    /\ (DefaultConfiguration /\ bhQuery = Instant(<<"2","0","2","6","-","1","1","-","0","4">>, 840)) => bhVerdict = "false"
    /\ (DefaultConfiguration /\ bhQuery = Instant(<<"2","0","2","6","-","1","1","-","0","3">>, 540)) => bhVerdict = "true"

\* Monday 2 November 2026, 12:00, the last minute of the default morning
\* interval, was asked about under the default configuration and is open
C16_Witness ==
  /\ DefaultConfiguration
  /\ bhQuery = Instant(<<"2","0","2","6","-","1","1","-","0","2">>, 720)
  /\ bhVerdict = "true"

\* C17: in the default configuration Monday, Tuesday, Thursday and Friday
\* have the same split shift (a morning and an afternoon interval),
\* Wednesday has the morning interval only and Saturday and Sunday have no
\* interval; so a Friday that is no holiday is open at every time at which
\* Monday is open, 15:00 included.
C17_DefaultOpeningHours ==
  (bhVerdict # "none" /\ bhQuery.valid /\ DefaultConfiguration
     /\ ~OnHoliday(bhQuery, bhHolidays)) =>
    /\ QueryWeekday[bhQuery.dateOnly] \in {"mon", "tue", "thu", "fri"} =>
         bhVerdict = boolOf(OpenAt(Instant(<<"2","0","2","6","-","1","1","-","0","2">>, bhQuery.minutes),
                                   bhHours, bhHolidays))
    /\ QueryWeekday[bhQuery.dateOnly] = "wed" =>
         bhVerdict = boolOf(bhQuery.minutes <= 12 * 60
                            /\ OpenAt(Instant(<<"2","0","2","6","-","1","1","-","0","2">>, bhQuery.minutes),
                                      bhHours, bhHolidays))
    /\ QueryWeekday[bhQuery.dateOnly] \in {"sat", "sun"} => bhVerdict = "false"

----------------------------------------------------------------------------
(* Properties of the time cache                                            *)

\* the last step was the start of a lookup with caching enabled
CachedLookup ==
  /\ tcLast # NotCalled
  /\ tcLast.event \in {"hit", "request"}
  /\ tcLast.useCache

RequestInFlight(key) ==
  \E task \in TaskIds : tcTasks[task] = Fetching(key, TRUE)

\* C18 as stated: a lookup with caching enabled whose key was stored by a
\* successful lookup less than 60 s earlier returns the stored result
\* without a request to the service.
C18_StoredWithinTtlIsReturned ==
  (CachedLookup /\ tcStoredAt[tcLast.key] # -1
     /\ tcLast.at - tcStoredAt[tcLast.key] < 60000) =>
    /\ tcLast.event = "hit"
    /\ tcLast.result = Answer(tcLast.key, tcStoredAt[tcLast.key])

\* C18: a lookup with caching enabled that finds an entry of its key stored
\* less than 60 s earlier returns the stored result without a request to the
\* service and leaves the entry in the cache; a lookup that finds an entry
\* 60 s old or older removes it and sends a request to the service.
C18_CacheTtl ==
  CachedLookup =>
    /\ (tcLast.found.present /\ tcLast.at - tcLast.found.entry.timestamp < 60000) =>
         /\ tcLast.event = "hit"
         /\ tcLast.result = tcLast.found.entry.data
         /\ cacheHas(tcCache, tcLast.key)
         /\ cacheGet(tcCache, tcLast.key) = tcLast.found.entry
    /\ (tcLast.found.present /\ tcLast.at - tcLast.found.entry.timestamp >= 60000) =>
         /\ tcLast.event = "request"
         /\ ~cacheHas(tcCache, tcLast.key)
         /\ RequestInFlight(tcLast.key)
    /\ ~tcLast.found.present =>
         /\ tcLast.event = "request"
         /\ RequestInFlight(tcLast.key)

\* a lookup found an entry stored 59999 ms earlier and returned it
C18_Witness ==
  /\ CachedLookup
  /\ tcLast.event = "hit"
  /\ tcLast.found.present
  /\ tcLast.at - tcLast.found.entry.timestamp = 59999
  /\ tcLast.result = Answer(tcLast.key, 1)

\* C19: the time cache never holds more entries than its limit at a point
\* another task can observe, and when storing exceeds the limit exactly one
\* entry is evicted and it is the oldest: no remaining entry has an older
\* timestamp than the evicted one.
C19_CacheBound ==
  /\ Len(tcCache) <= MaxCacheSize
  /\ (tcLast # NotCalled /\ tcLast.event = "stored" /\ tcLast.evicted.present) =>
       /\ Len(tcCache) = MaxCacheSize
       /\ \A i \in DOMAIN tcCache :
            tcCache[i].timestamp >= tcLast.evicted.entry.timestamp

----------------------------------------------------------------------------
(* Properties of the processing plan                                       *)

\* the items of a list that carry an intent, in the order of the list
ItemsOf(items, intent) == SelectSeq(items, LAMBDA item : item.intent = intent)

RECURSIVE ConfidenceTotal(_, _)
ConfidenceTotal(items, n) ==
  IF n = 0 THEN 0 ELSE items[n].confidence + ConfidenceTotal(items, n - 1)

RECURSIVE SizeTotal(_, _)
SizeTotal(buckets, n) ==
  IF n = 0 THEN 0 ELSE Len(buckets[n].items) + SizeTotal(buckets, n - 1)

\* C20: createProcessingPlan returns buckets with pairwise distinct intents;
\* every input item is in exactly one bucket, that of its intent, so the
\* bucket sizes add up to totalItems, the number of items; a bucket's
\* confidence is the arithmetic mean of its members' confidences;
\* multiIntent is true exactly when there is more than one bucket; buckets
\* and processingOrder are sorted by priority rank ascending, an emergency
\* bucket first.
C20_BucketGrouping ==
  planResult # NotCalled =>
    /\ \A i, j \in DOMAIN planResult.buckets :
         i # j => planResult.buckets[i].intent # planResult.buckets[j].intent
    /\ \A k \in DOMAIN planItems :
         \E i \in DOMAIN planResult.buckets :
           planResult.buckets[i].intent = planItems[k].intent
    /\ \A i \in DOMAIN planResult.buckets :
         /\ planResult.buckets[i].items
              = ItemsOf(planItems, planResult.buckets[i].intent)
         /\ planResult.buckets[i].items # <<>>
         /\ planResult.buckets[i].confidence.num
              * Len(planResult.buckets[i].items)
              = planResult.buckets[i].confidence.den
                  * ConfidenceTotal(planResult.buckets[i].items,
                                    Len(planResult.buckets[i].items))
         /\ planResult.buckets[i].confidence.den > 0
    /\ SizeTotal(planResult.buckets, Len(planResult.buckets)) = planResult.totalItems
    /\ planResult.totalItems = Len(planItems)
    /\ planResult.multiIntent <=> Len(planResult.buckets) > 1
    /\ \A i, j \in DOMAIN planResult.buckets :
         i < j => INTENT_PRIORITIES[planResult.buckets[i].intent]
                    <= INTENT_PRIORITIES[planResult.buckets[j].intent]
    /\ Len(planResult.processingOrder) = Len(planResult.buckets)
    /\ \A i \in DOMAIN planResult.buckets :
         /\ planResult.processingOrder[i] = planResult.buckets[i].intent
         /\ planResult.buckets[i].intent = "notfall" => i = 1

\* a plan for three items whose first is no emergency: the emergency bucket
\* comes first and the other bucket holds two items of different confidence
C20_Witness ==
  /\ planResult # NotCalled
  /\ Len(planItems) = 3
  /\ planItems[1].intent = "termin_anfragen"
  /\ planItems[2].intent = "notfall"
  /\ Len(planResult.buckets) = 2
  /\ planResult.multiIntent
  /\ planResult.buckets[1].intent = "notfall"
  /\ Len(planResult.buckets[2].items) = 2
  /\ planResult.buckets[2].items[1].confidence
       # planResult.buckets[2].items[2].confidence

RECURSIVE TableMinutes(_, _)
TableMinutes(items, n) ==
  IF n = 0 THEN 0
  ELSE PROCESSING_DURATION[items[n].intent] + TableMinutes(items, n - 1)

\* C21: estimatedDuration is the sum over the buckets of the table's minutes
\* for the intent times the number of items, an emergency counting 0
\* minutes: a plan of emergency items only has estimatedDuration 0 and
\* emergency items add nothing to a mixed plan.
C21_EstimatedDuration ==
  planResult # NotCalled =>
    planResult.estimatedDuration = TableMinutes(planItems, Len(planItems))

----------------------------------------------------------------------------
(* Properties of areIntentsCompatible and analyzeComplexity                *)

Has(intents, intent) == \E i \in DOMAIN intents : intents[i] = intent

AppointmentFamily == {"termin_anfragen", "termin_verschieben", "termin_absagen"}

AppointmentCompanions == AppointmentFamily \cup {"rezept_anfordern", "allgemeine_info"}

\* C22: a combination that holds the emergency intent and at least one other
\* intent is incompatible; a combination made only of the appointment
\* intents, prescription request and general information that holds an
\* appointment intent is compatible.
C22_EmergencyAlone ==
  cmpResult # "none" =>
    /\ (Has(cmpIntents, "notfall") /\ Len(cmpIntents) > 1) => cmpResult = "false"
    /\ ((\A i \in DOMAIN cmpIntents : cmpIntents[i] \in AppointmentCompanions)
          /\ (\E i \in DOMAIN cmpIntents : cmpIntents[i] \in AppointmentFamily)) =>
         cmpResult = "true"

\* the emergency intent with an appointment request was judged incompatible
C22_Witness ==
  /\ cmpIntents = <<"notfall", "termin_anfragen">>
  /\ cmpResult = "false"

\* C23: a combination of two or more different intents that holds an intent
\* outside the appointment intents, prescription request and general
\* information is incompatible, with or without an appointment intent.
C23_OtherMixturesIncompatible ==
  (cmpResult # "none" /\ Len(cmpIntents) >= 2
     /\ \E i \in DOMAIN cmpIntents : cmpIntents[i] \notin AppointmentCompanions) =>
    cmpResult = "false"

LevelAt(score) ==
  CASE score >= 80000 -> "critical"
    [] score >= 50000 /\ score < 80000 -> "complex"
    [] score >= 30000 /\ score < 50000 -> "medium"
    [] OTHER -> "simple"

\* C24: the score of analyzeComplexity lies between 0 and 1, both included,
\* and the level is critical from 0.8, complex from 0.5, medium from 0.3 and
\* simple below; an empty plan scores 0 and is simple.
C24_ComplexityScoreRange ==
  planAnalysis # NotCalled =>
    /\ planAnalysis.score >= 0
    /\ planAnalysis.score <= 100000
    /\ planAnalysis.level = LevelAt(planAnalysis.score)
    /\ planItems = <<>> => (planAnalysis.score = 0 /\ planAnalysis.level = "simple")

----------------------------------------------------------------------------
(* Further properties of gate                                              *)

IsEmergency(item) ==
  item.intent = "notfall" \/ item.next_action = "notfall_protokoll"

EmergencyItemsOf(resp) == SelectSeq(resp.items, IsEmergency)

\* C25: with at least one item of intent notfall or next_action
\* notfall_protokoll, the items of the EMERGENCY decision are exactly those
\* emergency items and its urgency is critical exactly when the highest
\* confidence among them is strictly greater than 0.8, high otherwise.
C25_EmergencyUrgency ==
  (GateCalled /\ EmergencyItemsOf(gateResp) # <<>>) =>
    /\ gateDecision.action = "EMERGENCY"
    /\ gateDecision.items = EmergencyItemsOf(gateResp)
    /\ gateDecision.urgency = "critical" <=>
         \E i \in DOMAIN EmergencyItemsOf(gateResp) :
           EmergencyItemsOf(gateResp)[i].confidence > 80000
    /\ gateDecision.urgency \in {"critical", "high"}

\* a routine item of confidence 0.99 is left out and the one emergency item,
\* of confidence exactly 0.8, gives urgency high
C25_Witness ==
  /\ GateCalled
  /\ Len(gateResp.items) = 2
  /\ gateResp.items[1].confidence = 99000
  /\ ~IsEmergency(gateResp.items[1])
  /\ gateResp.items[2].confidence = 80000
  /\ Len(gateDecision.items) = 1
  /\ gateDecision.items[1] = gateResp.items[2]
  /\ gateDecision.urgency = "high"

\* C27: for every installed configuration and every response with no
\* emergency item, no emergency keyword in the text and requires_human
\* false, a max_confidence below the configured escalateThreshold makes gate
\* return ESCALATE, also when escalateThreshold exceeds confirmThreshold.
C27_EscalateThresholdHonoured ==
  (GateCalled /\ ~HasEmergencyItem(gateResp) /\ ~TextHasKeyword(gateText, gateUsed)
     /\ ~gateResp.overall.requires_human
     /\ gateResp.overall.max_confidence < gateUsed.escalateThreshold) =>
    gateDecision.action = "ESCALATE"

\* item confidences, below and above every threshold
OtherConfidences == {10000, 99000}

\* the responses that differ from resp in the confidences of the items only
ConfidenceVariants(resp) ==
  { [resp EXCEPT !.items = [ i \in DOMAIN resp.items |->
                               [resp.items[i] EXCEPT !.confidence = cs[i]] ]]
    : cs \in [DOMAIN resp.items -> OtherConfidences] }

\* C29: for responses with no emergency item that differ only in the
\* confidences of their items, gate returns the same action under the same
\* text and configuration; a response that is complete and asks for no
\* human, with a declared max_confidence from autoProcessThreshold on, is
\* AUTO_PROCESSed whatever the confidences of its items are.
C29_ItemConfidencesIgnored ==
  (GateCalled /\ gateConfig = gateUsed /\ ~HasEmergencyItem(gateResp)) =>
    /\ \A other \in ConfidenceVariants(gateResp) :
         gate(other, gateText).action = gateDecision.action
    /\ (~TextHasKeyword(gateText, gateUsed) /\ ~gateResp.overall.requires_human
          /\ findMissingSlots(gateResp.items) = <<>>
          /\ gateResp.overall.max_confidence >= gateUsed.autoProcessThreshold) =>
         gateDecision.action = "AUTO_PROCESS"

\* a response whose only item has confidence 0.1, below confirmThreshold,
\* with a declared max_confidence of 0.85, was AUTO_PROCESSed
C29_Witness ==
  /\ GateCalled
  /\ Len(gateResp.items) = 1
  /\ gateResp.items[1].confidence = 10000
  /\ gateResp.items[1].confidence < gateUsed.confirmThreshold
  /\ gateResp.overall.max_confidence = 85000
  /\ gateDecision.action = "AUTO_PROCESS"

----------------------------------------------------------------------------
(* Further properties of classifyEmail                                     *)

\* C26: in every result of classifyEmail normalized.items has the length and
\* order of parsed.items, with the same intent, confidence and next_action
\* at each place, and parsed is what the validator (or the fallback)
\* produced: normalization does not change it, also where it rewrote the
\* slots of normalized.
C26_NormalizationOnCopy ==
  Settled =>
    /\ Len(clsResult.value.normalized.items) = Len(clsResult.value.parsed.items)
    /\ \A i \in DOMAIN clsResult.value.parsed.items :
         /\ clsResult.value.normalized.items[i].intent
              = clsResult.value.parsed.items[i].intent
         /\ clsResult.value.normalized.items[i].confidence
              = clsResult.value.parsed.items[i].confidence
         /\ clsResult.value.normalized.items[i].next_action
              = clsResult.value.parsed.items[i].next_action
    /\ (clsResult.value.success /\ clsHeld.ok) =>
         clsResult.value.parsed = clsHeld.step.parsed

\* the date of the first item was rewritten in normalized and is still the
\* text of the model's answer in parsed
C26_Witness ==
  /\ Normalized
  /\ clsResult.value.parsed.items[1].slots.datum = Str(<<"m","o","r","g","e","n">>)
  /\ clsResult.value.normalized.items[1].slots.datum
       = Str(<<"2","0","2","6","-","1","1","-","0","3">>)
  /\ clsResult.value.parsed = clsHeld.step.parsed

\* no interval of the table begins at 00:00, the only way to contain it
NoIntervalAtMidnight(hours) ==
  \A day \in DOMAIN hours : \A k \in DOMAIN hours[day] :
    ~(IsClock(hours[day][k][1]) /\ IsClock(hours[day][k][2])
        /\ ClockMinutes(hours[day][k][1]) = 0)

\* the date of item i resolved and its time is absent or unresolved
DateOnly(i) ==
  /\ truthy(clsResult.value.normalized.items[i].meta.date_normalized)
  /\ ~truthy(clsResult.value.normalized.items[i].meta.time_normalized)

\* C28: when the date slot resolves and the time slot is absent or
\* unresolved, withinBH is the business-hours verdict of that date at 00:00,
\* the start of the day; it is false under every configuration in which no
\* interval contains 00:00, the default one included.
C28_DateOnlyVerdict ==
  Normalized =>
    \A i \in DOMAIN clsWorlds :
      DateOnly(i) =>
        /\ clsResult.value.normalized.items[i].meta.within_business_hours
             = boolOf(OpenAt(Instant(clsResult.value.normalized.items[i].slots.datum.s, 0),
                             bhHours, bhHolidays))
        /\ NoIntervalAtMidnight(bhHours) =>
             clsResult.value.normalized.items[i].meta.within_business_hours = "false"

\* under the default configuration the date of an item resolved to Tuesday
\* 3 November 2026, its time did not, and the verdict is false although the
\* practice opens that day
C28_Witness ==
  /\ Normalized
  /\ DefaultConfiguration
  /\ \E i \in DOMAIN clsWorlds :
       /\ DateOnly(i)
       /\ truthy(clsResult.value.parsed.items[i].slots.zeit)
       /\ clsResult.value.normalized.items[i].slots.datum
            = Str(<<"2","0","2","6","-","1","1","-","0","3">>)
       /\ clsResult.value.normalized.items[i].meta.within_business_hours = "false"

----------------------------------------------------------------------------
(* Properties of reserve (ReserveSpec) *)

\* the stored reservations of a (resource, slot) pair are within its max_bookings
WithinCapacity ==
  \A resource \in ReserveResources, slotISO \in ReserveSlots :
    countReserved(resReservations, resource, slotISO)
      <= maxBookings(resCapacity, resource, slotISO)

\* no patient holds two reservations of one (resource, slot) pair
OnePerPatient == \A row \in ReserveRows : resReservations[row] <= 1

====
